---------------------------- MODULE MCGreenTree ----------------------------
(***************************************************************************)
(* Small heaps for TLC.  An address is a number, and the lowest free one   *)
(* is the next.  Each builder parses one source, making the calls a parser *)
(* would make of it; editors and callers do what they like.                *)
(***************************************************************************)
EXTENDS SyntaxTree, TLC

CONSTANTS short, long,     \* texts of one byte and of two
          Sources,         \* the calls of each parse
          MaxCursors       \* how often an editor sets out from a root

VARIABLES source, at,      \* what each builder parses, and its next call
          cursors          \* how often each editor has set out

LowestFree(free) == {x \in free : \A y \in free : x <= y}
Sizes == [t \in Texts |-> IF t = short THEN 1 ELSE 2]

Start(kind) == [call |-> "start_node", kind |-> kind]
StartAt(checkpoint, kind) == [call |-> "start_node_at", at |-> checkpoint, kind |-> kind]
Token(text) == [call |-> "token", text |-> text]
Finish == [call |-> "finish_node"]

\* File(Key(short) long), its key wrapped when it has been read, and
\* File(Value() short).
TwoFiles == {<<Start("File"), Token(short), StartAt(1, "Key"), Finish, Token(long), Finish>>,
             <<Start("File"), Start("Value"), Finish, Token(short), Finish>>}

Does(b, c) ==
    \/ c.call = "start_node" /\ StartNode(b, c.kind)
    \/ c.call = "start_node_at" /\ StartNodeAt(b, c.at, c.kind)
    \/ c.call = "token" /\ \E kind \in TokenKinds : AddToken(b, kind, c.text)
    \/ c.call = "finish_node" /\ FinishNode(b)

Parse(b) ==
    /\ \/ at[b] <= Len(source[b]) /\ Does(b, source[b][at[b]])
       \/ FinishTree(b)
    /\ at' = [at EXCEPT ![b] = @ + 1]
    /\ UNCHANGED <<source, cursors>>

BoundedEdit(e) ==
    /\ spine[e] = <<>> => cursors[e] < MaxCursors
    /\ Edit(e)
    /\ cursors' = [cursors EXCEPT ![e] = IF spine[e] = <<>> THEN @ + 1 ELSE @]
    /\ UNCHANGED <<source, at>>

ParsesInit ==
    /\ Init
    /\ source \in [Builders -> Sources]
    /\ at = [b \in Builders |-> 1]
    /\ cursors = [e \in Editors |-> 0]

ParsesNext ==
    \/ \E b \in Builders : Parse(b)
    \/ \E e \in Editors : BoundedEdit(e)
    \/ Handle /\ UNCHANGED <<source, at, cursors>>

ParsesSpec == ParsesInit /\ [][ParsesNext]_<<vars, source, at, cursors>>
=============================================================================
