------------------------------ MODULE Keyboard ------------------------------
(***************************************************************************)
(* The keyboard (keyboard.cpp): the device sends scan codes, the interrupt *)
(* decodes each one and pushes it to the CircularBuffer, the terminal pops *)
(* key events and maps those of letters to characters.                     *)
(***************************************************************************)
EXTENDS CircularBuffer

CONSTANTS
    UserKeys,    \* keys that are used: their scan codes, whether they have a prefix
                 \* and the character on them
    NUL,         \* the character that is none
    nothing,     \* the controller's output buffer is empty
    MaxWire      \* bound: scan codes on their way to the controller

VARIABLES
    down,        \* the keys the user holds
    wire,        \* the scan codes the keyboard has yet to send
    output,      \* the controller's output buffer, one scan code
    irq,         \* its interrupt is pending
    initialized  \* keyboard::init has run

buffer_vars == vars
device_vars == <<down, wire, output, irq>>
keyboard_vars == <<buffer_vars, device_vars, initialized>>

----------------------------------------------------------------------------
(* Scan codes.                                                             *)

\* on_isr_callback: the key, and in bit 7 whether it was released.  A prefix is
\* the release of a key that does not exist.
StateInBit6(code) ==   \* mutant
    [state |-> IF (code \div 64) % 2 = 1 THEN "released" ELSE "pressed",
     key |-> code % 128]
key_event(code) ==
    [state |-> IF code \div 128 = 1 THEN "released" ELSE "pressed",
     key |-> code % 128]

\* The keys with a character, a row of the keyboard in order of its scan codes.
KeyRow(first, characters) ==
    [code \in first..(first + Len(characters) - 1) |->
        characters[code - first + 1]]
KeyRows == {
    KeyRow(2, <<"1", "2", "3", "4", "5", "6", "7", "8", "9", "0">>),
    KeyRow(16, <<"q", "w", "e", "r", "t", "y", "u", "i", "o", "p">>),
    KeyRow(30, <<"a", "s", "d", "f", "g", "h", "j", "k", "l">>),
    KeyRow(44, <<"z", "x", "c", "v", "b", "n", "m">>), KeyRow(57, <<" ">>)}
key_characters ==
    [key \in UNION {DOMAIN row : row \in KeyRows} |->
        (CHOOSE row \in KeyRows : key \in DOMAIN row)[key]]

map_key_to_ascii(key) ==
    IF key \in DOMAIN key_characters THEN key_characters[key] ELSE NUL

\* What the terminal makes of a key event (command_line.cpp).
CharacterOf(event) ==
    IF event.state = "released" THEN map_key_to_ascii(event.key) ELSE NUL

\* What the device sends when a key goes down, or is held, and when it goes up.
Prefix == 224
Stroke(key, code) == IF key.prefixed THEN <<Prefix, code>> ELSE <<code>>
Make(key) == Stroke(key, key.code)
Break(key) == Stroke(key, key.code + 128)
ScanCodes == UNION {{Prefix, key.code, key.code + 128} : key \in UserKeys}

\* Keys have codes below the one a prefix is read as; none of those with a prefix
\* has the code of a letter (some keyboards have such keys, and the driver takes
\* them for the letter).
ASSUME UserKeysAssumption ==
    \A key \in UserKeys :
        /\ key.code \in 1..88 /\ key.prefixed \in BOOLEAN
        /\ key.prefixed => key.code \notin DOMAIN key_characters
        /\ key.prefixed => key.legend = NUL
\* The others have the legends of the table, as on a US keyboard.
ASSUME LegendsAssumption ==
    \A key \in UserKeys :
        ~key.prefixed => key.legend = map_key_to_ascii(key.code)
ASSUME EventsAssumption == {key_event(code) : code \in ScanCodes} \subseteq Keys
ASSUME NothingAssumption == nothing \notin ScanCodes
ASSUME ValueTypeAssumption == CharacterOf(value_type) = NUL

----------------------------------------------------------------------------

\* Keys used before the driver runs may have left a scan code; its interrupt was
\* forgotten when the PICs were programmed.
KeyboardInit ==
    /\ Init
    /\ down = {} /\ wire = <<>> /\ irq = FALSE
    /\ output \in ScanCodes \cup {nothing}
    /\ initialized = FALSE

\* keyboard::init, which empties the controller first.
clear_buffer ==
    /\ ~initialized /\ output # nothing
    /\ output' = nothing
    /\ UNCHANGED <<buffer_vars, down, wire, irq, initialized>>

DoNotClear ==   \* mutant
    /\ ~initialized
    /\ initialized' = TRUE
    /\ UNCHANGED <<buffer_vars, device_vars>>
init ==
    /\ ~initialized /\ output = nothing
    /\ initialized' = TRUE
    /\ UNCHANGED <<buffer_vars, device_vars>>

\* The user and the device.
Send(codes) ==
    /\ initialized /\ Len(wire) + Len(codes) <= MaxWire
    /\ wire' = wire \o codes
    /\ UNCHANGED <<buffer_vars, output, irq, initialized>>

Press(key) == key \notin down /\ down' = down \cup {key} /\ Send(Make(key))
Hold(key) == key \in down /\ UNCHANGED down /\ Send(Make(key))
Release(key) == key \in down /\ down' = down \ {key} /\ Send(Break(key))

\* The controller takes a scan code when the one before was read.
Receive ==
    /\ wire # <<>> /\ output = nothing
    /\ output' = Head(wire) /\ wire' = Tail(wire) /\ irq' = TRUE
    /\ UNCHANGED <<buffer_vars, down, initialized>>

on_isr_callback ==
    /\ initialized /\ irq
    /\ irq' = FALSE /\ output' = nothing
    /\ Push(key_event(output))
    /\ UNCHANGED <<down, wire, initialized>>

\* pull_key and try_pull_key.
Pull ==
    /\ PopEmpty \/ PopTest \/ PopRead \/ PopClear \/ PopAdvance
    /\ UNCHANGED <<device_vars, initialized>>

KeyboardNext ==
    \/ clear_buffer \/ init
    \/ \E key \in UserKeys : Press(key) \/ Hold(key) \/ Release(key)
    \/ Receive \/ on_isr_callback \/ Pull

KeyboardSpec == KeyboardInit /\ [][KeyboardNext]_keyboard_vars

----------------------------------------------------------------------------
(* What holds of the keyboard.                                             *)

\* The controller never holds a scan code nobody will fetch: it would send no
\* other one, and the keyboard would be dead.
NothingStuck == initialized /\ output # nothing => irq

\* What is typed, as the keys say, is read, character by character: neither a key
\* that repeats nor a prefix nor a key without a character ever looks like a
\* stroke, whatever the interrupt pushes while the terminal pops.
StrokeOf(code) ==
    LET released == {key \in UserKeys : Break(key) = <<code>>}
    IN  IF released = {} THEN NUL ELSE (CHOOSE key \in released : TRUE).legend
Written(s) ==   \* the characters of s that are not NUL
    LET upto[i \in 0..Len(s)] ==
            IF i = 0 THEN <<>>
            ELSE IF s[i] = NUL THEN upto[i - 1] ELSE Append(upto[i - 1], s[i])
    IN  upto[Len(s)]
Buffered == [i \in DOMAIN waiting |-> CharacterOf(waiting[i])]
Sent == LET codes == (IF output = nothing THEN <<>> ELSE <<output>>) \o wire
        IN  [i \in DOMAIN codes |-> StrokeOf(codes[i])]
Typing ==
    INSTANCE TypeAhead WITH
        Characters <- {key.legend : key \in UserKeys} \ {NUL},
        none <- NUL, full <- full,
        typed <- IF initialized THEN Written(Buffered \o Sent) ELSE <<>>,
        got <- CharacterOf(result)
ReadsWhatIsTyped == Typing!Spec
=============================================================================
