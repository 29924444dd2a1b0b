----------------------------- MODULE MCConsole -----------------------------
(* Console with strings for the keyboard handler to print.                 *)
EXTENDS Console

\* What memory may hold where keyboard_callback makes printk look: nothing,
\* the character of the key, others, and control characters.
KeyStrings == {<<>>, <<"k">>, <<Newline, "c">>, <<Backspace>>}

\* A character and a new line stand for "Interrupts enabled.\n".
Line == <<"0", Newline>>

\* Binary and ternary numbers instead of decimal and hexadecimal ones.
Bases == [int |-> 2, hex |-> 3]

=============================================================================
