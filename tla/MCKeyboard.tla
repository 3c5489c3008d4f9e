----------------------------- MODULE MCKeyboard -----------------------------
EXTENDS Keyboard

\* The letter a and delete.
MCUserKeys == {[code |-> 30, prefixed |-> FALSE, legend |-> "a"],
               [code |-> 83, prefixed |-> TRUE, legend |-> NUL]}
MCKeys == {key_event(code) : code \in ScanCodes}
MCvalue_type == [state |-> "pressed", key |-> 0]
=============================================================================
