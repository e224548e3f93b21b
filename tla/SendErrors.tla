----------------------------- MODULE SendErrors -----------------------------
(***************************************************************************)
(* The errors a dispatch returns, as trees: errors.Join, fmt.Errorf with   *)
(* %w, and the SendError of a provider; and the walk over them that        *)
(* decides whether a notification is acknowledged in spite of them.  A     *)
(* tree is a function from the paths of its nodes to what the nodes are; a *)
(* path says which child to take at each node, and nil has no node.        *)
(***************************************************************************)
EXTENDS Naturals, Sequences

Nil == [p \in {} |-> p]

\* An error of its own, with nothing below it.
Leaf(node) == [p \in {<<>>} |-> node]

\* An error that unwraps to those in the sequence errs.
Over(node, errs) ==
    [p \in {<<>>} \cup UNION {{<<i>> \o q : q \in DOMAIN errs[i]} : i \in DOMAIN errs} |->
        IF p = <<>> THEN node ELSE errs[Head(p)][Tail(p)]]

Plain == Leaf([kind |-> "plain"])

\* PermanentSendError and TemporarySendError: the walk does not look below.
Refused(channel, permanent) ==
    [kind |-> "send", channel |-> channel, permanent |-> permanent]

SendError(channel, permanent) == Leaf(Refused(channel, permanent))

\* fmt.Errorf("... %w", e).
Wrap(e) == Over([kind |-> "wrap"], <<e>>)

\* errors.Join: nil only if both are, and without those that are.
Join(e, f) ==
    IF e = Nil /\ f = Nil THEN Nil
    ELSE Over([kind |-> "join"], IF e = Nil THEN <<f>> ELSE IF f = Nil THEN <<e>> ELSE <<e, f>>)

\* Mutant: only the last of joined errors is looked at.
LastLeaf(e) ==
    {e[p] : p \in {q \in DOMAIN e :
        /\ Append(q, 1) \notin DOMAIN e
        /\ \A i \in 1..Len(q) : Append(SubSeq(q, 1, i - 1), q[i] + 1) \notin DOMAIN e}}

\* walkLeafErrors: what it visits, which are the nodes that have nothing below.
Leaves(e) == {e[p] : p \in {q \in DOMAIN e : Append(q, 1) \notin DOMAIN e}}

IsPermanentChannelOnly(e, channel) ==
    e # Nil /\ Leaves(e) = {Refused(channel, TRUE)}
=============================================================================
