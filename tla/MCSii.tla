--------------------------------- MODULE MCSii ---------------------------------
(* Values of the constants of Sii for TLC. *)
EXTENDS Sii

Texts == [ty |-> "Strings", strings |-> <<<<65, 66, 67>>, <<>>, <<68>>>>]
Unreadable == [ty |-> "Strings", strings |-> <<<<65>>, <<200>>>>]
Generals == [ty |-> "General", bytes |-> <<1, 2, 3, 4, 5, 6>>]
Fmmus == [ty |-> "Fmmu", bytes |-> <<1, 2>>]
Ending == [ty |-> "End", bytes |-> <<>>]
Device(categories, fill, unit, chunk) ==
    [categories |-> categories, fill |-> fill, unit |-> unit, chunk |-> chunk]
(* Small and large chunks; a category before the one sought, or after it; strings *)
(* that are not UTF8; an EEPROM filled with zeros, without end; byte addresses.   *)
SomeDevices ==
    { Device(<<Fmmus, Texts, Generals, Ending>>, 255, "Word", 8),
      Device(<<Generals, Fmmus, Unreadable>>, 255, "Word", 4),
      Device(<<>>, 0, "Word", 4),
      Device(<<Fmmus, Texts, Generals>>, 255, "Byte", 4) }

Read(address, length) == [kind |-> "read", address |-> address, length |-> length]
Write(address, bytes) == [kind |-> "write", address |-> address, data |-> bytes]
SomeRequests ==
    { [kind |-> k] : k \in {"new", "acquire", "release", "reload", "strings", "generals"} }
    \cup { Read(3, 9), Read(0, 8), Read(2, 3) }
    \cup { Write(0, <<1, 2, 3, 4>>), Write(2, <<5, 6, 7>>), Write(1, <<8, 9>>) }
================================================================================
