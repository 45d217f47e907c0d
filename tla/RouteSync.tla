----------------------------- MODULE RouteSync -----------------------------
(***************************************************************************)
(* What the reconciler promises, without saying how: the customer route    *)
(* table that Caddy serves is always built from committed rows of the      *)
(* domains and projects tables, and it never goes back to older rows than  *)
(* some table it has already served, unless a push that was given up on    *)
(* arrives after all.  Caddy may lose its customer routes at any time (a   *)
(* Caddyfile reload), and the two database tables may be seen at different *)
(* moments.                                                                *)
(*                                                                         *)
(* The content of a database table is abstracted to a version: the number  *)
(* of writes committed to it.                                              *)
(***************************************************************************)
EXTENDS Naturals

Tables == {"domains", "projects"}

Versions == [Tables -> Nat]

\* The versions of a fresh database, and of a route table with no customer route.
Zero == [t \in Tables |-> 0]

\* Versions a are not newer than versions b, table by table.
Upto(a, b) == \A t \in Tables : a[t] <= b[t]

VARIABLES
    db,         \* versions committed in Postgres
    table,      \* versions the customer routes at the edge were built from
    published,  \* the newest versions ever served at the edge
    sent        \* what was pushed and given up on, and may still arrive

syncVars == <<db, table, published, sent>>

\* A route table that may be pushed: built from committed rows, none older than
\* what the edge was given before or may still be given.
Pushable(t) ==
    /\ t \in Versions
    /\ Upto(t, db)
    /\ \A s \in {published} \cup sent : Upto(s, t)

SyncInit ==
    /\ db = Zero
    /\ table = Zero
    /\ published = Zero
    /\ sent = {}

\* Somebody commits a write to one of the tables.
Commit ==
    /\ \E t \in Tables : db' = [db EXCEPT ![t] = @ + 1]
    /\ UNCHANGED <<table, published, sent>>

\* The edge receives a route table.
Publish ==
    /\ Pushable(table')
    /\ published' = table'
    /\ UNCHANGED <<db, sent>>

\* A push is given up on while it is under way.
GiveUp ==
    /\ \E t \in sent' : Pushable(t) /\ sent' = sent \cup {t}
    /\ UNCHANGED <<db, table, published>>

\* It arrives after all; another copy of it may be under way still.
Belated ==
    /\ table' \in sent
    /\ sent' \in {sent, sent \ {table'}}
    /\ published' = IF Upto(published, table') THEN table' ELSE published
    /\ UNCHANGED db

\* The edge loses every customer route.
Wipe ==
    /\ table' = Zero
    /\ UNCHANGED <<db, published, sent>>

SyncNext == Commit \/ Publish \/ GiveUp \/ Belated \/ Wipe

SyncSpec == SyncInit /\ [][SyncNext]_syncVars
=============================================================================
