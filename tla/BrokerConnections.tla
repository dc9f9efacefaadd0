-------------------------- MODULE BrokerConnections --------------------------
(***************************************************************************)
(* Which brokers a user has linked (backend/app/brokers, service and       *)
(* store): connecting looks for an active row and then inserts one,        *)
(* disconnecting looks the row up and then deletes it.                     *)
(***************************************************************************)
EXTENDS RequestThreads, FiniteSets

CONSTANTS
    Clients,       \* users
    Brokers,       \* IMPLEMENTED_BROKERS
    LinkedBefore,  \* tables that an earlier process may have left
    MaxLinks       \* bound: rows inserted

VARIABLES
    links,    \* table broker_connections; a deleted id never comes back
    lastLink  \* its last id

linkVars == <<links, lastLink>>

Active(u, b) == {r \in links : r.user = u /\ r.broker = b}

LinkInit ==
    /\ links \in LinkedBefore
    /\ lastLink = Cardinality(links)

\* connect, up to exists_active; any other broker type is refused.
StartLink(t) ==
    /\ \E u \in Clients, b \in Brokers :
         /\ Active(u, b) = {}
         /\ Begin(t, "insert", [op |-> "link", user |-> u, broker |-> b])
    /\ UNCHANGED linkVars

InsertLink(t) ==
    /\ At(t, "insert")
    /\ lastLink < MaxLinks
    /\ lastLink' = lastLink + 1
    /\ links' = links \cup {[id |-> lastLink + 1, user |-> frame[t].user, broker |-> frame[t].broker]}
    /\ Done(t)

\* disconnect: the row of another user is not found.
StartUnlink(t) ==
    /\ \E r \in links : Begin(t, "delete", [op |-> "unlink", id |-> r.id, user |-> r.user])
    /\ UNCHANGED linkVars

DeleteLink(t) ==
    /\ At(t, "delete")
    /\ links' = {r \in links : ~(r.id = frame[t].id /\ r.user = frame[t].user)}
    /\ Done(t)
    /\ UNCHANGED lastLink

LinkNext ==
    \E t \in Threads : StartLink(t) \/ InsertLink(t) \/ StartUnlink(t) \/ DeleteLink(t)

=============================================================================
