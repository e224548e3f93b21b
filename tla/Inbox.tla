------------------------------- MODULE Inbox --------------------------------
(***************************************************************************)
(* The inbox of one recipient: deliveries arrive, some again and some      *)
(* late, the recipient marks and dismisses them, and a client walks        *)
(* through the pages of GET /notifications, by limit and offset, while     *)
(* that happens.  Each request is one statement to Postgres.               *)
(*                                                                         *)
(* Notifications are numbers in the order of created_at and, where that is *)
(* equal, of the ID.  created_at is set when a notification is first       *)
(* persisted, so the delivery to a recipient whose turn came late, after a *)
(* failure, lands below newer ones.                                        *)
(***************************************************************************)
EXTENDS Naturals, SequencesExt

CONSTANTS
    Notes,        \* notifications for the recipient
    DefaultLimit, \* 50
    MaxLimit,     \* 100
    MaxChanges,   \* bound on arrivals, marks and dismissals
    NoParam       \* the limit of a request that gives none

ASSUME InboxAssumption ==
    /\ Notes \subseteq Nat
    /\ DefaultLimit \in 1..MaxLimit /\ MaxLimit \in Nat
    /\ MaxChanges \in Nat
    /\ NoParam \notin Nat

VARIABLES
    rows,      \* the deliveries of the recipient
    read,      \* those marked read
    dismissed, \* those dismissed
    changes,   \* changes so far
    walk,      \* idle, walking, done
    limit,     \* the limit the responses of the walk repeat
    offset,    \* the offset of its next request
    got,       \* the items it has been given
    start,     \* history: what was listed when it began
    added,     \* history: has a new delivery arrived since?
    removed    \* history: what has been dismissed since

rowVars  == <<rows, read, dismissed>>
walkVars == <<walk, limit, offset, got, start>>
vars == <<rowVars, changes, walkVars, added, removed>>

Init ==
    /\ rows = {} /\ read = {} /\ dismissed = {}
    /\ changes = 0
    /\ walk = "idle" /\ limit = 0 /\ offset = 0 /\ got = <<>> /\ start = {}
    /\ added = FALSE /\ removed = {}

Change ==
    /\ changes < MaxChanges
    /\ changes' = changes + 1

-----------------------------------------------------------------------------
(* What changes the rows.                                                  *)

\* InsertSiteDelivery, the first time or again.
Arrive(n) ==
    /\ Change
    /\ rows' = rows \cup {n}
    /\ added' = (added \/ n \notin rows)
    /\ UNCHANGED <<read, dismissed, walkVars, removed>>

\* MarkRead.  With no row the answer is 404.
MarkRead(n) ==
    /\ Change
    /\ n \in rows
    /\ read' = read \cup {n}
    /\ UNCHANGED <<rows, dismissed, walkVars, added, removed>>

Dismiss(n) ==
    /\ Change
    /\ n \in rows
    /\ dismissed' = dismissed \cup {n}
    /\ removed' = removed \cup ({n} \ dismissed)
    /\ UNCHANGED <<rows, read, walkVars, added>>

-----------------------------------------------------------------------------
(* What the handlers answer.                                               *)

Listed == rows \ dismissed

\* Newest first.
Sorted(S) ==
    CHOOSE s \in [1..Cardinality(S) -> S] : \A i, j \in DOMAIN s : i < j => s[i] > s[j]

\* LIMIT and OFFSET.
Page(s, lim, off) == SubSeq(s, off + 1, IF off + lim < Len(s) THEN off + lim ELSE Len(s))

\* The store has bounds of its own for the limit.
StoreLimit(lim) == IF lim \in 1..MaxLimit THEN lim ELSE DefaultLimit

\* Mutant: dismissed rows are left out after the page is cut.
ListInboxCutFirst(lim, off) ==
    SelectSeq(Page(Sorted(rows), StoreLimit(lim), off), LAMBDA n : n \notin dismissed)

\* Mutant: unread rows come first.
ListInboxUnreadFirst(lim, off) ==
    Page(Sorted(Listed \ read) \o Sorted(Listed \cap read),
         StoreLimit(lim), off)

ListInbox(lim, off) == Page(Sorted(Listed), StoreLimit(lim), off)

\* Mutant: dismissed rows are counted.
CountUnreadAll == Cardinality(rows \ read)

CountUnread == Cardinality(Listed \ read)

\* The limits pageParams lets through.
PageLimits == 1..MaxLimit

-----------------------------------------------------------------------------
(* A client that walks through the pages.                                  *)

\* The first request of a walk; a limit out of range is answered 400.
BeginWalk(param) ==
    /\ walk # "walking"
    /\ param \in PageLimits \cup {NoParam}
    /\ walk' = "walking"
    /\ limit' = IF param = NoParam THEN DefaultLimit ELSE param
    /\ offset' = 0 /\ got' = <<>>
    /\ start' = Listed
    /\ added' = FALSE /\ removed' = {}
    /\ UNCHANGED <<rowVars, changes>>

\* The next page; an empty one ends the walk.
Fetch ==
    /\ walk = "walking"
    /\ LET page == ListInbox(limit, offset) IN
       /\ got' = got \o page
       /\ offset' = offset + limit
       /\ walk' = IF page = <<>> THEN "done" ELSE "walking"
    /\ UNCHANGED <<rowVars, changes, limit, start, added, removed>>

-----------------------------------------------------------------------------
Next ==
    \/ \E n \in Notes : Arrive(n) \/ MarkRead(n) \/ Dismiss(n)
    \/ \E p \in 0..(MaxLimit + 1) \cup {NoParam} : BeginWalk(p)
    \/ Fetch

Spec == Init /\ [][Next]_vars

-----------------------------------------------------------------------------
(* Properties.                                                             *)

\* A walk to the last page shows everything that was in the inbox when it
\* began, whatever arrives and is marked meanwhile, unless something is
\* dismissed on the way, which makes what follows move up.
NothingSkipped ==
    walk = "done" /\ removed = {} => start \subseteq ToSet(got)

\* Unless something new arrives on the way a walk shows nothing twice: marking
\* items read as they are shown does not move them.
NothingTwice == added \/ IsInjective(got)

\* If nothing arrives or is dismissed from the start of a walk on, the items it
\* has shown that are unread are as many as GET /notifications/count says.
CountAgreesWithWalk ==
    walk = "done" /\ ~added /\ removed = {} =>
        Cardinality(ToSet(got) \ read) = CountUnread

\* What a client makes of the pages is what the inbox holds.
WalkIsExact == NothingSkipped /\ NothingTwice /\ CountAgreesWithWalk
=============================================================================
