------------------------------- MODULE Seats -------------------------------
(***************************************************************************)
(* What invitations promise, without users, rows, copies or requests.  An  *)
(* address gets a seat in the project only from an operator's grant, or    *)
(* from an offer made to it that is being taken up, in the role that was   *)
(* granted or offered.  An offer may be taken up while it is open, its     *)
(* link has been sent and it has not lapsed.  Only grants change the role  *)
(* of somebody seated, and nobody loses a seat.  An address has one open   *)
(* offer at most; an offer that has ended never opens again, and counts as *)
(* used only if its addressee is seated.                                   *)
(***************************************************************************)
CONSTANTS
    Emails,
    Ids         \* of offers

VARIABLES
    seat,       \* the role every address has, or "none"
    offer,      \* what became of every offer, to whom it was made, in which role
    sent,       \* offers whose link got out
    lapsed,     \* offers whose time is over
    taking,     \* offers that are being taken up
    granting    \* grants that are being carried out

seatVars == <<seat, offer, sent, lapsed, taking, granting>>

Roles == {"owner", "member"}
Offers == [state : {"none", "open", "used", "void"}, email : Emails, role : Roles]

SeatsInit ==
    /\ seat = [e \in Emails |-> "none"]
    /\ offer \in [Ids -> Offers]
    /\ \A i \in Ids : offer[i].state = "none"
    /\ <<sent, lapsed, taking, granting>> = <<{}, {}, {}, {}>>

\* Whoever carries something out may end with that step, or at any time.
SomeGone == taking' \subseteq taking /\ granting' \subseteq granting

GiveUp ==
    /\ SomeGone
    /\ UNCHANGED <<seat, offer, sent, lapsed>>

Offer(i, e, r) ==
    /\ offer[i].state = "none"
    /\ \A j \in Ids : offer[j].email = e => offer[j].state # "open"
    /\ offer' = [offer EXCEPT ![i] = [state |-> "open", email |-> e, role |-> r]]
    /\ UNCHANGED <<seat, sent, lapsed, taking, granting>>

\* An offer ends, or ends otherwise than it had before.
End(i) ==
    /\ offer[i].state # "none"
    /\ \/ offer' = [offer EXCEPT ![i].state = "void"]
       \/ /\ offer' = [offer EXCEPT ![i].state = "used"]
          /\ seat[offer[i].email] # "none"
    /\ SomeGone
    /\ UNCHANGED <<seat, sent, lapsed>>

Send(i) ==
    /\ offer[i].state # "none"
    /\ sent' = sent \cup {i}
    /\ UNCHANGED <<seat, offer, lapsed, taking, granting>>

Lapse(i) ==
    /\ lapsed' = lapsed \cup {i}
    /\ UNCHANGED <<seat, offer, sent, taking, granting>>

TakeUp(i) ==
    /\ offer[i].state = "open"
    /\ i \in sent \ lapsed
    /\ taking' = taking \cup {i}
    /\ UNCHANGED <<seat, offer, sent, lapsed, granting>>

Grant(e, r) ==
    /\ granting' = granting \cup {<<e, r>>}
    /\ UNCHANGED <<seat, offer, sent, lapsed, taking>>

\* A grant gives an address its first role or another one, ...
Appoint(e, r) ==
    /\ <<e, r>> \in granting
    /\ seat' = [seat EXCEPT ![e] = r]
    /\ SomeGone
    /\ UNCHANGED <<offer, sent, lapsed>>

\* ... an offer its first one only.
Admit(i) ==
    /\ i \in taking
    /\ seat[offer[i].email] = "none"
    /\ seat' = [seat EXCEPT ![offer[i].email] = offer[i].role]
    /\ SomeGone
    /\ UNCHANGED <<offer, sent, lapsed>>

SeatsNext ==
    \/ GiveUp
    \/ \E e \in Emails, r \in Roles : Grant(e, r) \/ Appoint(e, r) \/ \E i \in Ids : Offer(i, e, r)
    \/ \E i \in Ids : End(i) \/ Send(i) \/ Lapse(i) \/ TakeUp(i) \/ Admit(i)

SeatsSpec == SeatsInit /\ [][SeatsNext]_seatVars
=============================================================================
