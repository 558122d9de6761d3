--------------------------- MODULE MCEntryLifecycle --------------------------
(* Small instances of EntryLifecycle for TLC: an account under two         *)
(* passwords, and another account.                                         *)
EXTENDS EntryLifecycle

CONSTANTS a1, a2, de, fr, old, new

Context(a, t, p) == [account |-> a, terms |-> t, password |-> p]
TwoPasswords == {Context(a1, de, old), Context(a1, de, new)}
ThreeContexts == TwoPasswords \cup {Context(a2, fr, old)}
=============================================================================
