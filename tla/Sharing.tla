------------------------------- MODULE Sharing -------------------------------
(***************************************************************************)
(* Sharing of Notebooks (internal/notebook, internal/app/sharing_routes):  *)
(* the Owner invites by email, the recipient accepts with the token of a   *)
(* mail, Members change role, leave, are removed or become Owner, and the  *)
(* Owner deletes the Notebook.                                             *)
(*                                                                         *)
(* A command that takes the advisory lock of the Notebook is one step from *)
(* the lock to its commit; what it read before the lock is a step of its   *)
(* own.  A User stands for the canonical email of its account.  Mail may   *)
(* arrive late, so any token ever issued may be presented.                 *)
(***************************************************************************)
EXTENDS Naturals, FiniteSets

CONSTANTS Notebooks, Users, Founder,
          Keys, AcceptKeys, \* idempotency keys of the clients
          Limit,            \* members and offers of a Notebook, 50 in the code
          MaxInvites, MaxResends,
          MaxTransfers,     \* bounds
          Handlers,         \* acceptances in progress at once
          Writers, Deletes  \* who creates Chats, whether Notebooks are deleted

\* Of the constants; the MC modules that instantiate this one assume it.
SharingAssumption ==
    /\ Founder \in Users /\ Writers \subseteq Users /\ Deletes \in BOOLEAN
    /\ {Limit, MaxInvites, MaxResends, MaxTransfers} \subseteq Nat

VARIABLES
    alive,     \* notebook_notebooks
    role,      \* notebook_memberships
    inv,       \* notebook_invitations
    created,   \* idempotency keys of create_notebook_invitation
    accepted,  \* idempotency keys of accept_notebook_invitation
    requests,  \* acceptances past the lookup of their key
    answer,    \* last answer to each acceptance
    chats,     \* chat_chats
    inserted,  \* Chats whose transaction has not committed
    deleting,  \* deletions that have listed the members to notify
    told,      \* notebook_deleted mails
    resends, transfers

vars == <<alive, role, inv, created, accepted, requests, answer, chats, inserted, deleting, told, resends, transfers>>
accepts == <<accepted, requests, answer>>
private == <<chats, inserted>>
removal == <<alive, deleting, told>>
bounds == <<resends, transfers>>

Invites == 1..MaxInvites
NoInvite == [state |-> "none", nb |-> "none", to |-> "none", gen |-> 0, due |-> FALSE]
Member(n, u) == role[n][u] # "none"
Owner(n, u) == role[n][u] = "owner"
Members(n) == {u \in Users : Member(n, u)}
Pending(n) == {i \in Invites : inv[i].state = "pending" /\ inv[i].nb = n}
Effective(n) == {i \in Pending(n) : ~inv[i].due}
Reserved(n) == Cardinality({u \in Users : role[n][u] \in {"viewer", "editor"}}) + Cardinality(Effective(n))

Init ==
    /\ alive = Notebooks
    /\ role = [n \in Notebooks |-> [u \in Users |-> IF u = Founder THEN "owner" ELSE "none"]]
    /\ inv = [i \in Invites |-> NoInvite]
    /\ created = {} /\ accepted = {} /\ requests = {} /\ answer = {}
    /\ chats = {} /\ inserted = {} /\ deleting = {} /\ told = {}
    /\ resends = 0 /\ transfers = 0

-----------------------------------------------------------------------------
(* Invitations. *)

(* Seven days pass. *)
Lapse(i) ==
    /\ inv[i].state = "pending" /\ ~inv[i].due
    /\ inv' = [inv EXCEPT ![i].due = TRUE]
    /\ UNCHANGED <<role, created, accepts, private, removal, bounds>>

Overdue(n) == [i \in Invites |-> IF i \in Pending(n) /\ inv[i].due THEN [inv[i] EXCEPT !.state = "expired"] ELSE inv[i]]
ListInvitations(n, u) ==
    /\ Owner(n, u) /\ Pending(n) # Effective(n)
    /\ inv' = Overdue(n)
    /\ UNCHANGED <<role, created, accepts, private, removal, bounds>>

Free == {i \in Invites : inv[i] = NoInvite}
Offer(n, to) == [state |-> "pending", nb |-> n, to |-> to, gen |-> 1, due |-> FALSE]
\* Mutant: an offer does not reserve its place.
AdmitsUnreserved(n, to) ==
    /\ ~Member(n, to)
    /\ \A i \in Pending(n) : inv[i].to = to => inv[i].due
    /\ Cardinality({u \in Users : role[n][u] \in {"viewer", "editor"}}) < Limit
(* Neither a Member nor offered, below the limit. *)
Admits(n, to) ==
    /\ ~Member(n, to)
    /\ \A i \in Pending(n) : inv[i].to = to => inv[i].due
    /\ Reserved(n) < Limit
(* The request hash covers the email, not the Notebook: a key that is      *)
(* known replays its response.                                             *)
CreateInvitation(n, u, to, k) ==
    /\ \A c \in created : ~(c.by = u /\ c.key = k)
    /\ Owner(n, u) /\ Admits(n, to) /\ Free # {}
    /\ LET i == CHOOSE f \in Free : \A g \in Free : f <= g
       IN /\ inv' = [Overdue(n) EXCEPT ![i] = Offer(n, to)]
          /\ created' = created \cup {[by |-> u, key |-> k, to |-> to, nb |-> n, asked |-> n]}
    /\ UNCHANGED <<role, accepts, private, removal, bounds>>
ReplayCreate(n, u, to, k) ==
    /\ \E c \in created :
          /\ c.by = u /\ c.key = k /\ c.to = to
          /\ created' = created \cup {[c EXCEPT !.asked = n]}
    /\ UNCHANGED <<role, inv, accepts, private, removal, bounds>>

Revoke(n, u, i) ==
    /\ Owner(n, u) /\ i \in Pending(n)
    /\ inv' = [inv EXCEPT ![i].state = "revoked"]
    /\ UNCHANGED <<role, created, accepts, private, removal, bounds>>

(* An overdue offer gets a new token and seven more days; the unique index *)
(* refuses a second pending offer to the email.                            *)
Resend(n, u, i) ==
    /\ Owner(n, u) /\ inv[i].nb = n /\ resends < MaxResends /\ resends' = resends + 1
    /\ inv[i].state = "expired" \/ (inv[i].state = "pending" /\ inv[i].due)
    /\ \A j \in Pending(n) \ {i} : inv[j].to # inv[i].to
    /\ inv' = [inv EXCEPT ![i].state = "pending", ![i].gen = @ + 1, ![i].due = FALSE]
    /\ UNCHANGED <<role, created, accepts, private, removal, transfers>>

(* AcceptInvitation looks for its key, and then takes the lock.            *)
Request(u, k, i, g) == [user |-> u, key |-> k, inv |-> i, gen |-> g]
SameKey(r) == {a \in accepted : a.user = r.user /\ a.key = r.key}
Answer(r, res) == {a \in answer : a.req # r} \cup {[req |-> r, res |-> res]}
AcceptReads(h, u, k, i, g) ==
    /\ g \in 1..inv[i].gen /\ \A p \in requests : p.by # h
    /\ LET r == Request(u, k, i, g)
       IN IF SameKey(r) # {}
          THEN /\ r \in accepted
               /\ answer' = Answer(r, "joined")
               /\ UNCHANGED requests
          ELSE /\ requests' = requests \cup {[by |-> h, req |-> r]}
               /\ UNCHANGED answer
    /\ UNCHANGED <<role, inv, created, accepted, private, removal, bounds>>
Opens(r) == inv[r.inv].state = "pending" /\ ~inv[r.inv].due /\ inv[r.inv].to = r.user /\ inv[r.inv].gen = r.gen
Accept(p) == LET r == p.req IN
    /\ p \in requests /\ requests' = requests \ {p}
    /\ IF Opens(r) /\ ~Member(inv[r.inv].nb, r.user)
       THEN /\ role' = [role EXCEPT ![inv[r.inv].nb][r.user] = "viewer"]
            /\ inv' = [inv EXCEPT ![r.inv].state = "accepted"]
            /\ accepted' = accepted \cup {r} /\ answer' = Answer(r, "joined")
       ELSE answer' = Answer(r, "unavailable") /\ UNCHANGED <<role, inv, accepted>>
    /\ UNCHANGED <<created, private, removal, bounds>>

-----------------------------------------------------------------------------
(* Members. *)

ChangeMemberRole(n, u, t, to) ==
    /\ Owner(n, u) /\ role[n][t] \in {"viewer", "editor"} \ {to}
    /\ role' = [role EXCEPT ![n][t] = to]
    /\ UNCHANGED <<inv, created, accepts, private, removal, bounds>>

TransferOwnership(n, u, t) ==
    /\ Owner(n, u) /\ u # t /\ Member(n, t) /\ transfers < MaxTransfers /\ transfers' = transfers + 1
    /\ role' = [role EXCEPT ![n] = [@ EXCEPT ![u] = "editor", ![t] = "owner"]]
    /\ UNCHANGED <<inv, created, accepts, private, removal, resends>>

(* The Owner removes a Member, or a Member leaves: the committed Chats of  *)
(* the Member go.                                                          *)
Depart(n, u, t) ==
    /\ role[n][t] \in {"viewer", "editor"} /\ (Owner(n, u) \/ u = t)
    /\ role' = [role EXCEPT ![n][t] = "none"]
    /\ chats' = chats \ {<<n, t>>}
    /\ UNCHANGED <<inv, created, accepts, inserted, removal, bounds>>

(* CreatePrivate: the membership is checked when the Chat is inserted.     *)
InsertChat(n, u) ==
    /\ u \in Writers /\ Member(n, u) /\ <<n, u>> \notin chats \cup inserted
    /\ inserted' = inserted \cup {<<n, u>>}
    /\ UNCHANGED <<role, inv, created, accepts, chats, removal, bounds>>
CommitChat(n, u) ==
    /\ <<n, u>> \in inserted
    /\ inserted' = inserted \ {<<n, u>>} /\ chats' = chats \cup {<<n, u>>}
    /\ UNCHANGED <<role, inv, created, accepts, removal, bounds>>

(* The handler lists who is to be told, and Delete lists them again under  *)
(* the lock.  The deletion of the row waits for Chats being inserted.      *)
DeleteReads(n, u) ==
    /\ Deletes /\ Owner(n, u) /\ ~\E d \in deleting : d.nb = n /\ d.by = u
    /\ deleting' = deleting \cup {[nb |-> n, by |-> u, tell |-> Members(n) \ {u}]}
    /\ UNCHANGED <<role, inv, created, accepts, private, alive, told, bounds>>
DeleteRefused(d) ==
    /\ d \in deleting
    /\ ~Owner(d.nb, d.by) \/ ~(Members(d.nb) \ {d.by} \subseteq d.tell)
    /\ deleting' = deleting \ {d}
    /\ UNCHANGED <<role, inv, created, accepts, private, alive, told, bounds>>
Erase(n) ==
    /\ alive' = alive \ {n}
    /\ role' = [role EXCEPT ![n] = [u \in Users |-> "none"]]
    /\ inv' = [i \in Invites |-> IF inv[i].nb = n THEN [inv[i] EXCEPT !.state = "gone"] ELSE inv[i]]
    /\ chats' = {c \in chats : c[1] # n}
Delete(d) ==
    /\ d \in deleting /\ deleting' = deleting \ {d}
    /\ Owner(d.nb, d.by) /\ Members(d.nb) \ {d.by} \subseteq d.tell
    /\ \A c \in inserted : c[1] # d.nb
    /\ told' = told \cup {<<d.nb, u>> : u \in Members(d.nb) \ {d.by}}
    /\ Erase(d.nb)
    /\ UNCHANGED <<created, accepts, inserted, bounds>>

-----------------------------------------------------------------------------
Invitation(n, u) ==
    \/ ListInvitations(n, u)
    \/ \E to \in Users, k \in Keys : CreateInvitation(n, u, to, k) \/ ReplayCreate(n, u, to, k)
    \/ \E i \in Invites : Revoke(n, u, i) \/ Resend(n, u, i)
Membership(n, u) ==
    \/ \E t \in Users : TransferOwnership(n, u, t) \/ Depart(n, u, t)
    \/ \E t \in Users, to \in {"viewer", "editor"} : ChangeMemberRole(n, u, t, to)
    \/ InsertChat(n, u) \/ CommitChat(n, u) \/ DeleteReads(n, u)
Next ==
    \/ \E n \in alive, u \in Users : Invitation(n, u) \/ Membership(n, u)
    \/ \E i \in Invites : Lapse(i)
    \/ \E h \in Handlers, u \in Users, k \in AcceptKeys, i \in Invites, g \in 1..(MaxResends + 1) : AcceptReads(h, u, k, i, g)
    \/ \E p \in requests : Accept(p)
    \/ \E d \in deleting : Delete(d) \/ DeleteRefused(d)

Spec == Init /\ [][Next]_vars

-----------------------------------------------------------------------------
(* Properties. *)

(* Every variable has its type.                                            *)
(* The rows of notebook_memberships, notebook_invitations and chat_chats.  *)
Roles == {"none", "viewer", "editor", "owner"}
OfferRow(i) == inv[i].nb \in Notebooks /\ inv[i].to \in Users /\ inv[i].gen \in 1..(MaxResends + 1)
ChatRows == SUBSET (Notebooks \X Users)
TypeOK ==
    /\ alive \subseteq Notebooks /\ role \in [Notebooks -> [Users -> Roles]]
    /\ \A i \in Invites : inv[i].state # "none" => OfferRow(i)
    /\ {chats, inserted, told} \subseteq ChatRows
    /\ resends <= MaxResends /\ transfers <= MaxTransfers

(* nano_enforce_notebook_owner: a Notebook has exactly one Owner, over     *)
(* transfers, departures and deletions.                                    *)
OneOwner == \A n \in Notebooks : Cardinality({u \in Users : Owner(n, u)}) = IF n \in alive THEN 1 ELSE 0

(* An email has one pending offer of a Notebook, over resends and expiry.  *)
OneOffer == \A n \in Notebooks : \A i, j \in Pending(n) : inv[i].to = inv[j].to => i = j

(* sharing design, 3.1: at most Limit Members and effective offers, so     *)
(* that an acceptance cannot oversubscribe the Notebook.                   *)
WithinLimit == \A n \in Notebooks : Reserved(n) <= Limit

(* sharing design, 6.3: an offer is made, or made again, to an email that  *)
(* is no Member.                                                           *)
OfferedIsNoMember == \A n \in Notebooks : \A i \in Effective(n) : ~Member(n, inv[i].to)

(* sharing design, 6.3: old links stay invalid.  Whoever joins presented   *)
(* the newest token of the offer.                                          *)
JoinedByNewest ==
    [][\A r \in accepted' \ accepted : inv[r.inv].gen = r.gen]_vars

(* Everyone who was a Member when the Notebook was deleted is told, also   *)
(* one who joined after the handler listed them.                           *)
DeletedIsTold ==
    [][\A n \in alive \ alive' : \A u \in Users : role[n][u] \in {"viewer", "editor"} => <<n, u>> \in told']_vars

(* sharing design, 6.2: a concurrent replay returns one stable outcome.    *)
(* Does not hold: see "Disagreements" in the README.                        *)
StableOutcome ==
    [][\A a \in answer : a.res = "joined" => a \in answer']_vars

(* sharing design, 6.5: the private Chats of a Member go with its          *)
(* Membership, in one transaction.                                         *)
(* Does not hold: see "Disagreements" in the README.                        *)
ChatsOfMembers == \A n \in Notebooks, u \in Users : <<n, u>> \in chats => Member(n, u)

(* sharing design, 6.1: reusing a key for another request conflicts.       *)
(* Does not hold: see "Disagreements" in the README.                        *)
ReplayIsOfRequest == \A c \in created : c.asked = c.nb

=============================================================================
