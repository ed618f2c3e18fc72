------------------------------- MODULE RunChain -------------------------------
(***************************************************************************)
(* What a run repository promises, whatever stores the run: the accepted   *)
(* checkpoints of a run form one chain that only grows, each built on the  *)
(* one before it; an attempt that is told "accepted" is in the chain, one  *)
(* that is told "refused" is not and never gets there.  An attempt whose   *)
(* host died before the answer stays open: it may still get there.         *)
(***************************************************************************)
EXTENDS Integers, Sequences

(* An attempt is one call of commit(): a record [who, try, commit]. *)
VARIABLES chain,  \* the accepted checkpoints, by revision
          open,   \* attempts that were made and not answered
          accepted \* commits that some attempt was told are accepted

vars == <<chain, open, accepted>>

Init == chain = <<>> /\ open = {} /\ accepted = {}

(* c continues the chain: its parent is the last checkpoint and its change *)
(* was made to that checkpoint's history.                                  *)
Continues(c) ==
    /\ c.checkpoint.rev = Len(chain)
    /\ \A i \in 1..Len(chain) : chain[i].id # c.checkpoint.id
    /\ IF chain = <<>>
       THEN c.kind = "initial"
       ELSE /\ c.kind # "initial" /\ c.parent = chain[Len(chain)].id
            /\ c.base = chain[Len(chain)].hist

Begin(a) ==
    /\ a \notin open
    /\ open' = open \cup {a}
    /\ UNCHANGED <<chain, accepted>>

Lands(a) ==
    /\ a \in open /\ Continues(a.commit)
    /\ chain' = Append(chain, a.commit.checkpoint)

(* The commit takes effect before, or while, its caller is answered. *)
Land(a) == Lands(a) /\ UNCHANGED <<open, accepted>>
LandAndAccept(a) ==
    /\ Lands(a)
    /\ open' = open \ {a} /\ accepted' = accepted \cup {a.commit}

Landed(c) == \E i \in 1..Len(chain) : chain[i] = c.checkpoint

Accept(a) ==
    /\ a \in open /\ Landed(a.commit)
    /\ open' = open \ {a} /\ accepted' = accepted \cup {a.commit}
    /\ UNCHANGED chain

(* A refused commit is not in the chain, unless an earlier call of commit()*)
(* has put it there and was told so.                                       *)
Refuse(a) ==
    /\ a \in open
    /\ Landed(a.commit) => a.commit \in accepted
    /\ open' = open \ {a}
    /\ UNCHANGED <<chain, accepted>>

Next ==
    \/ \E a \in open' : Begin(a)
    \/ \E a \in open : Land(a) \/ LandAndAccept(a) \/ Accept(a) \/ Refuse(a)

Spec == Init /\ [][Next]_vars
=============================================================================
