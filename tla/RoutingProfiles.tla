--------------------------- MODULE RoutingProfiles ---------------------------
(***************************************************************************)
(* The routing tables of the ModelDeck store (compatibility/store.py): the *)
(* draft of each Routing Profile, its published revisions, and which       *)
(* revision, if any, is live.  The gateway resolves a public API Model ID  *)
(* among the routes of the live revisions.                                 *)
(*                                                                         *)
(* Every operation is one SQLite transaction, so one step.  The routing    *)
(* snapshot stored with an activation is always the one of the revision    *)
(* being activated; the model keeps the revision number only.              *)
(***************************************************************************)
EXTENDS Naturals, Sequences

CONSTANTS
    Profiles,    \* profile identifiers
    Names,       \* public API Model IDs, equal when they fold to the same case
    Workers,     \* what a route may name as its primary Worker
    Nobody,      \* the primary of a name a document does not route
    NoDraft      \* the draft of a profile that does not exist

ASSUME RoutingAssumption ==
    /\ Nobody \notin Workers
    /\ NoDraft \notin [Names -> Workers \cup {Nobody}]

\* A profile document: the primary Worker of every name it routes.
Documents == [Names -> Workers \cup {Nobody}]

VARIABLES
    draft,  \* routing_profiles.draft_json
    revs,   \* routing_profile_revisions
    live    \* active_routing_profiles.revision, 0 without a row

routingVars == <<draft, revs, live>>

RoutingTypeOK ==
    /\ draft \in [Profiles -> Documents \cup {NoDraft}]
    /\ revs \in [Profiles -> Seq(Documents)]
    /\ live \in [Profiles -> Nat]

RoutingInit ==
    /\ draft = [p \in Profiles |-> NoDraft]
    /\ revs = [p \in Profiles |-> << >>]
    /\ live = [p \in Profiles |-> 0]

---------------------------------------------------------------------------

Served(d) == {n \in Names : d[n] # Nobody}

\* The names that reach p's live revision.
LiveNames(p) == IF live[p] = 0 THEN {} ELSE Served(revs[p][live[p]])

\* _ensure_no_active_capability_collisions
Collides_SameProfile(p, d) == LiveNames(p) \cap Served(d) # {}

Collides(p, d) == \E q \in Profiles \ {p} : LiveNames(q) \cap Served(d) # {}

\* create_routing_profile, save_routing_profile_draft
SaveDraft(p, d) ==
    /\ draft' = [draft EXCEPT ![p] = d]
    /\ UNCHANGED <<revs, live>>

\* publish_routing_profile: the new revision and its activation commit together.
\* The profile exists, by the foreign key.
AddRevision(p, d) ==
    /\ draft[p] # NoDraft
    /\ ~Collides(p, d)
    /\ revs' = [revs EXCEPT ![p] = Append(@, d)]
    /\ live' = [live EXCEPT ![p] = Len(revs[p]) + 1]
    /\ UNCHANGED draft

PublishDraft(p) == AddRevision(p, draft[p])

\* activate_routing_profile_revision
Activate(p, r) ==
    /\ ~Collides(p, revs[p][r])
    /\ live' = [live EXCEPT ![p] = r]
    /\ UNCHANGED <<draft, revs>>

\* deactivate_routing_profile
Deactivate(p) ==
    /\ draft[p] # NoDraft
    /\ live' = [live EXCEPT ![p] = 0]
    /\ UNCHANGED <<draft, revs>>

\* discard_routing_profile_draft: back to the newest revision
DiscardDraft(p) ==
    /\ revs[p] # << >>
    /\ SaveDraft(p, revs[p][Len(revs[p])])

\* delete_routing_profile
DeleteProfile_Live(p) ==
    /\ draft[p] # NoDraft
    /\ live[p] = 0
    /\ draft' = [draft EXCEPT ![p] = NoDraft]
    /\ UNCHANGED <<revs, live>>

DeleteProfile(p) ==
    /\ draft[p] # NoDraft
    /\ live[p] = 0
    /\ revs[p] = << >>
    /\ draft' = [draft EXCEPT ![p] = NoDraft]
    /\ UNCHANGED <<revs, live>>

RoutingNext ==
    \E p \in Profiles :
        \/ \E d \in Documents : SaveDraft(p, d)
        \/ \E d \in Documents : AddRevision(p, d)
        \/ \E r \in 1..Len(revs[p]) : Activate(p, r)
        \/ Deactivate(p)
        \/ DeleteProfile(p)

RoutingSpec == RoutingInit /\ [][RoutingNext]_routingVars

---------------------------------------------------------------------------

\* A public API Model ID leads to one live profile at most, whatever order the
\* profiles were published, rolled back and deactivated in: the gateway takes the
\* first live route that has the name (_ensure_no_active_capability_collisions).
NoAmbiguousNames ==
    \A p, q \in Profiles : p # q => LiveNames(p) \cap LiveNames(q) = {}

\* What is live was published and its profile is kept: no sequence of discards,
\* deletions and rollbacks leaves an active row without the revision it names.
LiveIsPublished ==
    \A p \in Profiles :
        /\ live[p] \in 0..Len(revs[p])
        /\ revs[p] # << >> => draft[p] # NoDraft

=============================================================================
