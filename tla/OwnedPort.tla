----------------------------- MODULE OwnedPort -----------------------------
(***************************************************************************)
(* What the serial port service promises the applications that use it, as  *)
(* a lock: a port is free or has one owner, work on it is begun by the     *)
(* owner only, and an owner gives it up at the end of a piece of work or   *)
(* by dying.  It is a lock with a weakness: work that is under way when    *)
(* the port is given up goes on, as stale work, and the end of a stale     *)
(* piece of work may take the port from whoever has it by then.            *)
(***************************************************************************)
CONSTANTS
  Works,     \* those who do the work
  Ports,
  Owners,
  Free       \* the owner of a port that nobody has

VARIABLES
  owner,     \* of each port
  work,      \* the port and the owner of each piece of work, or none
  stale,     \* the work whose owner gave the port up meanwhile
  gone       \* owners that have died

Init ==
  /\ owner = [p \in Ports |-> Free]
  /\ work = [w \in Works |-> <<>>]
  /\ stale = {}
  /\ gone = {}

On(p) == {w \in Works : work[w] # <<>> /\ work[w][1] = p}

Acquire(p, o) ==
  /\ owner[p] = Free
  /\ owner' = [owner EXCEPT ![p] = o]
  /\ UNCHANGED <<work, stale, gone>>

Begin(w, p, o) ==
  /\ work[w] = <<>>
  /\ owner[p] = o
  /\ work' = [work EXCEPT ![w] = <<p, o>>]
  /\ UNCHANGED <<owner, stale, gone>>

End(w) ==
  /\ work[w] # <<>>
  /\ work' = [work EXCEPT ![w] = <<>>]
  /\ stale' = stale \ {w}
  /\ UNCHANGED <<owner, gone>>

GiveUp(w, p) ==
  /\ w \in On(p)
  /\ owner' = [owner EXCEPT ![p] = Free]
  /\ work' = [work EXCEPT ![w] = <<>>]
  /\ stale' = (stale \union On(p)) \ {w}
  /\ UNCHANGED gone

(* The owner's own work ends with giving the port up.                      *)
Release(w, p) == w \notin stale /\ GiveUp(w, p)

(* Work of an earlier owner ends with taking the port from the present one. *)
Break(w, p) == w \in stale /\ GiveUp(w, p)

Die(o) ==
  /\ gone' = gone \union {o}
  /\ UNCHANGED <<owner, work, stale>>

(* The port of an owner that has died becomes free.                        *)
Expire(p) ==
  /\ owner[p] \in gone
  /\ owner' = [owner EXCEPT ![p] = Free]
  /\ stale' = stale \union On(p)
  /\ UNCHANGED <<work, gone>>

Next ==
  \/ \E p \in Ports, o \in Owners : Acquire(p, o)
  \/ \E w \in Works, p \in Ports :
        \/ \E o \in Owners : Begin(w, p, o)
        \/ Release(w, p)
        \/ Break(w, p)
  \/ \E w \in Works : End(w)
  \/ \E o \in Owners : Die(o)
  \/ \E p \in Ports : Expire(p)

Spec == Init /\ [][Next]_<<owner, work, stale, gone>>

TypeOK ==
  /\ owner \in [Ports -> Owners \union {Free}]
  /\ work \in [Works -> (Ports \X Owners) \union {<<>>}]
  /\ stale \subseteq {w \in Works : work[w] # <<>>}
  /\ gone \subseteq Owners

(* Work that is not stale is the present owner's; so two different owners  *)
(* never have work that is not stale on one port.                          *)
Exclusive ==
  \A w \in Works \ stale : work[w] # <<>> => owner[work[w][1]] = work[w][2]

(* What one step can do to an owner: a port goes from an owner to another  *)
(* only through Free, and a port whose owner lives is lost only to a piece *)
(* of work on that very port.                                              *)
LostToWork ==
  \A p \in Ports :
     (owner[p] # Free /\ owner'[p] # owner[p]) =>
        /\ owner'[p] = Free
        /\ owner[p] \in gone \/ \E w \in On(p) : work'[w] = <<>>
=============================================================================
