-------------------------- MODULE ServiceRegistry ---------------------------
(***************************************************************************)
(* Discovery over Postgres: replicas of one Writer advertise the same      *)
(* service, each at its own endpoint, by a heartbeat that writes the       *)
(* agent's identity and the service's lease, in the shared tables and      *)
(* through the registry's routes; the registry merges leases over its seed *)
(* file and, to compare, asks the endpoint it finds whether it serves.     *)
(***************************************************************************)
EXTENDS Naturals, FiniteSets

CONSTANTS
  Replicas,      \* Writer processes, and the endpoints they serve
  SeedEndpoint,  \* where the seed file says the service is, or NoEndpoint
  NoEndpoint,
  MaxBoots       \* bound on starts, which also number the moments they happen

ASSUME RegistryAssumption ==
  NoEndpoint \notin Replicas /\ SeedEndpoint \in Replicas \cup {NoEndpoint} /\ MaxBoots \in Nat

VARIABLES
  lease,       \* the row of service_leases: endpoint, and is expires_at ahead
  registered,  \* registered_at of the row of agent_identities, 0 for no row
  route,       \* /agents/register in progress: registeredAt read, 0 for none
  beat,        \* where each replica's heartbeat is
  bootAt,      \* writerRegisteredAt of each replica
  boots,
  query,       \* /services/compare in progress: the endpoint in its catalogue
  offered      \* the endpoint of the last offer ranked

registryVars == <<lease, registered, route, beat, bootAt, boots, query, offered>>

RegistryInit ==
  /\ lease = [endpoint |-> NoEndpoint, valid |-> FALSE]
  /\ registered = 0
  /\ route = [r \in Replicas |-> 0]
  /\ beat = [r \in Replicas |-> "down"]
  /\ bootAt = [r \in Replicas |-> 0]
  /\ boots = 0
  /\ query = [at |-> "idle", endpoint |-> NoEndpoint]
  /\ offered = NoEndpoint

(***************************************************************************)
(* advertiseWriterCapabilities                                             *)
(***************************************************************************)
Boot(r) ==
  /\ beat[r] = "down" /\ boots < MaxBoots
  /\ boots' = boots + 1
  /\ bootAt' = [bootAt EXCEPT ![r] = boots + 1]
  /\ beat' = [beat EXCEPT ![r] = "up"]
  /\ UNCHANGED <<lease, registered, route, query, offered>>

\* ON CONFLICT: registered_at = LEAST(stored, offered).
IdentityRow(at) == IF registered = 0 \/ at < registered THEN at ELSE registered

PersistIdentity(r) ==
  /\ beat[r] = "up"
  /\ registered' = IdentityRow(bootAt[r])
  /\ beat' = [beat EXCEPT ![r] = "identity"]
  /\ UNCHANGED <<lease, route, bootAt, boots, query, offered>>

\* POST /agents/register keeps the registeredAt it reads before it writes,
\* or takes the time of the request.
RegisterReads(r) ==
  /\ beat[r] = "identity"
  /\ route' = [route EXCEPT ![r] = IF registered = 0 THEN boots ELSE registered]
  /\ beat' = [beat EXCEPT ![r] = "registering"]
  /\ UNCHANGED <<lease, registered, bootAt, boots, query, offered>>

RegisterWrites(r) ==
  /\ beat[r] = "registering"
  /\ registered' = IdentityRow(route[r])
  /\ route' = [route EXCEPT ![r] = 0]
  /\ beat' = [beat EXCEPT ![r] = "registered"]
  /\ UNCHANGED <<lease, bootAt, boots, query, offered>>

\* The registry is unreachable or answers an error: noted, and the heartbeat goes on.
RegisterFails(r) ==
  /\ beat[r] \in {"identity", "registering"}
  /\ route' = [route EXCEPT ![r] = 0]
  /\ beat' = [beat EXCEPT ![r] = "registered"]
  /\ UNCHANGED <<lease, registered, bootAt, boots, query, offered>>

LeaseRowKept(r) ==                     \* variant: the endpoint is not in the SET list
  [endpoint |-> IF lease.endpoint = NoEndpoint THEN r ELSE lease.endpoint, valid |-> TRUE]
LeaseRow(r) == [endpoint |-> r, valid |-> TRUE]

\* registerDynamicService here, and again by POST /services/register.
RegisterService(r) ==
  /\ beat[r] = "registered"
  /\ lease' = LeaseRow(r)
  /\ beat' = [beat EXCEPT ![r] = "leased"]
  /\ UNCHANGED <<registered, route, bootAt, boots, query, offered>>

RegisterServiceRemotely(r) ==
  /\ beat[r] = "leased"
  /\ \E reached \in BOOLEAN : lease' = IF reached THEN LeaseRow(r) ELSE lease
  /\ beat' = [beat EXCEPT ![r] = "up"]
  /\ UNCHANGED <<registered, route, bootAt, boots, query, offered>>

\* A replica dies; also by an error of the tables in a heartbeat after the
\* first, whose promise nobody handles.
ReplicaDies(r) ==
  /\ beat[r] # "down"
  /\ beat' = [beat EXCEPT ![r] = "down"]
  /\ route' = [route EXCEPT ![r] = 0]
  /\ UNCHANGED <<lease, registered, bootAt, boots, query, offered>>

\* clock_timestamp() passes expires_at: no replica has renewed the lease lately.
LeaseExpires ==
  /\ lease.valid /\ \A r \in Replicas : beat[r] = "down"
  /\ lease' = [lease EXCEPT !.valid = FALSE]
  /\ UNCHANGED <<registered, route, beat, bootAt, boots, query, offered>>

(***************************************************************************)
(* compareCatalogServices                                                  *)
(***************************************************************************)
\* loadCatalogServices: the seed, overlaid by what the tables list.
Catalogued == IF lease.valid THEN lease.endpoint ELSE SeedEndpoint

CompareLoads ==
  /\ query.at = "idle"
  /\ query' = [at |-> "catalog", endpoint |-> Catalogued]
  /\ UNCHANGED <<lease, registered, route, beat, bootAt, boots, offered>>

\* Only a service its endpoint advertises at this moment is ranked.
CompareAnswers ==
  /\ query.at = "catalog"
  /\ offered' = IF query.endpoint # NoEndpoint /\ beat[query.endpoint] # "down"
                  THEN query.endpoint ELSE NoEndpoint
  /\ query' = [at |-> "idle", endpoint |-> NoEndpoint]
  /\ UNCHANGED <<lease, registered, route, beat, bootAt, boots>>

BeatStep(r) ==
  \/ PersistIdentity(r) \/ RegisterReads(r) \/ RegisterWrites(r) \/ RegisterFails(r)
  \/ RegisterService(r) \/ RegisterServiceRemotely(r)

RegistryNext ==
  \/ \E r \in Replicas : Boot(r) \/ BeatStep(r) \/ ReplicaDies(r)
  \/ LeaseExpires
  \/ boots > 0 /\ (CompareLoads \/ CompareAnswers)

\* setInterval drives the heartbeat; a hunter keeps asking for a ranking.
RegistryFairness ==
  /\ \A r \in Replicas : WF_registryVars(BeatStep(r))
  /\ WF_registryVars(boots > 0 /\ (CompareLoads \/ CompareAnswers))

RegistrySpec == RegistryInit /\ [][RegistryNext]_registryVars /\ RegistryFairness

(***************************************************************************)
(* Properties                                                              *)
(***************************************************************************)
\* While a replica stays up the service is offered again and again, whatever
\* other replicas died holding the lease.
OfferedAgain ==
  (\E r \in Replicas : <>[](beat[r] # "down")) => []<>(offered # NoEndpoint)
=============================================================================
