------------------------------ MODULE Startup ------------------------------
(***************************************************************************)
(* The life of the process (main.go): replicas of the service migrate and  *)
(* seed one database, reach Redis, serve HTTP and gRPC, and are signalled  *)
(* to stop.  Any of them may be killed at any point.  Tables are kept to   *)
(* what the properties tell apart: which migrations ran and are recorded,  *)
(* how many rows one role of one organization has, whose users were        *)
(* inserted and which of them have roles.                                  *)
(***************************************************************************)
EXTENDS Integers, Sequences, FiniteSets

CONSTANTS Replicas,
          MaxBoots    \* bound: starts of any replica

ASSUME StartupAssumption == MaxBoots \in Nat \ {0}

VARIABLES schema,      \* versions whose Up has run to its end
          migrations,  \* versions recorded in the table migrations (unique)
          rows,        \* the seeded tables
          at,          \* replica -> where main is
          ver,         \* replica -> index in Versions of the migration at hand
          role,        \* replica -> row of the role its seeder found or created, or 0
          signalled,   \* replicas that were sent SIGTERM
          web,         \* replica -> its HTTP server
          rpc,         \* replica -> its gRPC server
          inFlight,    \* replicas with an RPC under way
          boots

startVars == <<schema, migrations, rows, at, ver, role, signalled, web, rpc, inFlight, boots>>

\* The order in which RunMigrations lists them.
Versions == <<"001_initial_schema", "002_add_token_table", "003_add_performance_indexes",
              "004_add_user_activity_table", "005_create_materialized_views">>

NoRows == [organizations |-> FALSE, permissions |-> FALSE, roles |-> 0, granted |-> {},
           users |-> {}, assigned |-> {}, activities |-> FALSE]

StartInit ==
    /\ schema = {} /\ migrations = {} /\ rows = NoRows
    /\ at = [r \in Replicas |-> "off"] /\ ver = [r \in Replicas |-> 1]
    /\ role = [r \in Replicas |-> 0] /\ signalled = {}
    /\ web = [r \in Replicas |-> "none"] /\ rpc = [r \in Replicas |-> "none"]
    /\ inFlight = {} /\ boots = 0

GotoStage(r, l) == at' = [at EXCEPT ![r] = l]

\* The end of a process, by os.Exit, by returning from main or by a kill.
End(r) ==
    /\ GotoStage(r, "off")
    /\ ver' = [ver EXCEPT ![r] = 1] /\ role' = [role EXCEPT ![r] = 0]
    /\ signalled' = signalled \ {r} /\ inFlight' = inFlight \ {r}
    /\ web' = [web EXCEPT ![r] = "none"] /\ rpc' = [rpc EXCEPT ![r] = "none"]
    /\ UNCHANGED <<schema, migrations, rows, boots>>

Servers == <<web, rpc, inFlight>>
Tables == <<schema, migrations, rows>>

-----------------------------------------------------------------------------
(* Starting: configuration, database, migrations.                          *)

\* config.Load cannot fail: every setting has a default.
Load(r) ==
    /\ at[r] = "off" /\ boots < MaxBoots
    /\ boots' = boots + 1
    /\ GotoStage(r, "connect")
    /\ UNCHANGED <<Tables, ver, role, signalled, Servers>>

\* Both connections are opened, then each pool is sized and pinged; a failure is
\* Fatal, which exits.
initializeConnection(r) ==
    /\ at[r] = "connect"
    /\ \/ GotoStage(r, "pool") /\ UNCHANGED <<Tables, ver, role, signalled, Servers, boots>>
       \/ End(r)

configureConnectionPool(r) ==
    /\ at[r] = "pool"
    /\ \/ GotoStage(r, "check") /\ UNCHANGED <<Tables, ver, role, signalled, Servers, boots>>
       \/ End(r)

Version(r) == Versions[ver[r]]

NextMigration(r) ==
    /\ GotoStage(r, IF ver[r] < Len(Versions) THEN "check" ELSE "seed")
    /\ ver' = [ver EXCEPT ![r] = IF @ < Len(Versions) THEN @ + 1 ELSE @]

\* Faulty variant: a version is recorded before its statements run.
checkMigrationRecords(r) ==
    /\ at[r] = "check"
    /\ IF Version(r) \in migrations
       THEN NextMigration(r) /\ UNCHANGED migrations
       ELSE GotoStage(r, "up") /\ migrations' = migrations \cup {Version(r)} /\ UNCHANGED ver
    /\ UNCHANGED <<schema, rows, role, signalled, Servers, boots>>

\* runMigration asks for the record of the version first.
checkMigration(r) ==
    /\ at[r] = "check"
    /\ IF Version(r) \in migrations
       THEN NextMigration(r)
       ELSE GotoStage(r, "up") /\ UNCHANGED ver
    /\ UNCHANGED <<Tables, role, signalled, Servers, boots>>

\* What a version's statements refer to.
migration001InitialSchema == {}
migration002AddTokenTable == {}
migration003AddPerformanceIndexes == {}   \* a failed index is a warning
migration004AddUserActivityTable == {}
migration005CreateMaterializedViews == {"001_initial_schema"}

Needs(v) ==
    CASE v = Versions[1] -> migration001InitialSchema
      [] v = Versions[2] -> migration002AddTokenTable
      [] v = Versions[3] -> migration003AddPerformanceIndexes
      [] v = Versions[4] -> migration004AddUserActivityTable
      [] v = Versions[5] -> migration005CreateMaterializedViews

\* The statements of a version are idempotent; two replicas running them at once, or
\* the database, may make them fail, except in 003.
Up(r) ==
    /\ at[r] = "up"
    /\ \/ /\ Needs(Version(r)) \subseteq schema
          /\ schema' = schema \cup {Version(r)}
          /\ GotoStage(r, "record")
          /\ UNCHANGED <<migrations, rows, ver, role, signalled, Servers, boots>>
       \/ Version(r) # "003_add_performance_indexes" /\ End(r)

\* The version is unique: of two replicas that ran it, one fails here.
recordMigration(r) ==
    /\ at[r] = "record"
    /\ \/ /\ Version(r) \notin migrations
          /\ migrations' = migrations \cup {Version(r)}
          /\ NextMigration(r)
          /\ UNCHANGED <<schema, rows, role, signalled, Servers, boots>>
       \/ End(r)

-----------------------------------------------------------------------------
(* Seeding.  An error ends SeedAll; main warns and goes on to Redis.       *)

SeedFails(r) ==
    /\ at[r] \in {"organizations", "permissions", "roles", "createRole", "grants", "users",
                  "userRoles", "activities"}
    /\ GotoStage(r, "redis")
    /\ UNCHANGED <<Tables, ver, role, signalled, Servers, boots>>

SeedStep(r, from, to, new) ==
    /\ at[r] = from
    /\ GotoStage(r, to) /\ rows' = new
    /\ UNCHANGED <<schema, migrations, ver, signalled, Servers, boots>>

\* Any user at all, and nothing is seeded.
SeedAll(r) ==
    /\ SeedStep(r, "seed", IF rows.users # {} THEN "redis" ELSE "organizations", rows)
    /\ UNCHANGED role

\* Inserted unless they exist, then read back.
seedOrganizations(r) ==
    /\ SeedStep(r, "organizations", "permissions", [rows EXCEPT !.organizations = TRUE])
    /\ UNCHANGED role

seedPermissions(r) ==
    /\ SeedStep(r, "permissions", "roles", [rows EXCEPT !.permissions = TRUE])
    /\ UNCHANGED role

\* FirstOrCreate: a query, then an insert; no index makes a role's name unique.
seedRoles(r) ==
    \/ /\ SeedStep(r, "roles", IF rows.roles = 0 THEN "createRole" ELSE "grants", rows)
       /\ role' = [role EXCEPT ![r] = IF rows.roles = 0 THEN 0 ELSE 1]
    \/ /\ SeedStep(r, "createRole", "grants", [rows EXCEPT !.roles = @ + 1])
       /\ role' = [role EXCEPT ![r] = rows.roles + 1]

seedRolePermissions(r) ==
    /\ SeedStep(r, "grants", "users", [rows EXCEPT !.granted = @ \cup {role[r]}])
    /\ UNCHANGED role

\* One insert of all users; the administrator's address is unique.
seedUsers(r) ==
    /\ rows.users \cap Replicas = {}
    /\ SeedStep(r, "users", "userRoles", [rows EXCEPT !.users = @ \cup {r}])
    /\ UNCHANGED role

seedUserRoles(r) ==
    /\ SeedStep(r, "userRoles", "activities", [rows EXCEPT !.assigned = @ \cup {r}])
    /\ UNCHANGED role

\* Skipped when there are activities.
seedUserActivities(r) ==
    /\ SeedStep(r, "activities", "redis", [rows EXCEPT !.activities = TRUE])
    /\ UNCHANGED role

Seed(r) ==
    \/ SeedAll(r) \/ SeedFails(r)
    \/ seedOrganizations(r) \/ seedPermissions(r) \/ seedRoles(r) \/ seedRolePermissions(r)
    \/ seedUsers(r) \/ seedUserRoles(r) \/ seedUserActivities(r)

-----------------------------------------------------------------------------
(* Serving.                                                                *)

\* redis.Initialize pings; a failure is Fatal.
InitializeRedis(r) ==
    /\ at[r] = "redis"
    /\ \/ /\ GotoStage(r, "serving")
          /\ web' = [web EXCEPT ![r] = "starting"] /\ rpc' = [rpc EXCEPT ![r] = "starting"]
          /\ UNCHANGED <<Tables, ver, role, signalled, inFlight, boots>>
       \/ End(r)

\* r.Run of gin serves until it fails; no signal ends it.
RunHTTP(r) ==
    /\ web[r] = "starting"
    /\ \E outcome \in {"serving", "ended"} : web' = [web EXCEPT ![r] = outcome]
    /\ UNCHANGED <<Tables, at, ver, role, signalled, rpc, inFlight, boots>>

\* The services are built with a fallback for each part that is not there (the simple
\* cache manager, the activity table), so this cannot fail.
NewAuthGRPCServer(r) ==
    /\ rpc[r] = "starting"
    /\ rpc' = [rpc EXCEPT ![r] = "built"]
    /\ UNCHANGED <<Tables, at, ver, role, signalled, web, inFlight, boots>>

\* Start returns as soon as it listens and has a goroutine serving, or with an error.
StartGRPC(r) ==
    /\ rpc[r] = "built"
    /\ \E outcome \in {"serving", "ended"} : rpc' = [rpc EXCEPT ![r] = outcome]
    /\ UNCHANGED <<Tables, at, ver, role, signalled, web, inFlight, boots>>

BeginRPC(r) ==
    /\ rpc[r] = "serving" /\ r \notin inFlight
    /\ inFlight' = inFlight \cup {r}
    /\ UNCHANGED <<Tables, at, ver, role, signalled, web, rpc, boots>>

EndRPC(r) ==
    /\ r \in inFlight
    /\ inFlight' = inFlight \ {r}
    /\ UNCHANGED <<Tables, at, ver, role, signalled, web, rpc, boots>>

\* A visitor registers: a user that no seeder made.
RegisterVisitor(r) ==
    /\ web[r] = "serving" /\ rows.users = {}
    /\ rows' = [rows EXCEPT !.users = {"visitor"}]
    /\ UNCHANGED <<schema, migrations, at, ver, role, signalled, Servers, boots>>

-----------------------------------------------------------------------------
(* Stopping.                                                               *)

Signal(r) ==
    /\ at[r] = "serving" /\ r \notin signalled
    /\ signalled' = signalled \cup {r}
    /\ UNCHANGED <<Tables, at, ver, role, Servers, boots>>

\* main has its signal and waits for the two goroutines it started.
ReceiveSignal(r) ==
    /\ at[r] = "serving" /\ r \in signalled
    /\ GotoStage(r, "waiting")
    /\ UNCHANGED <<Tables, ver, role, signalled, Servers, boots>>

\* setupGracefulShutdown has its own copy of the signal and calls Shutdown.
setupGracefulShutdown(r) ==
    /\ r \in signalled /\ rpc[r] = "serving"
    /\ rpc' = [rpc EXCEPT ![r] = "draining"]
    /\ UNCHANGED <<Tables, at, ver, role, signalled, web, inFlight, boots>>

\* GracefulStop waits for RPCs under way.
GracefulStop(r) ==
    /\ rpc[r] = "draining" /\ r \notin inFlight
    /\ rpc' = [rpc EXCEPT ![r] = "stopped"]
    /\ UNCHANGED <<Tables, at, ver, role, signalled, web, inFlight, boots>>

\* After thirty seconds, Stop cuts them off.
ShutdownTimeout(r) ==
    /\ rpc[r] = "draining"
    /\ rpc' = [rpc EXCEPT ![r] = "stopped"] /\ inFlight' = inFlight \ {r}
    /\ UNCHANGED <<Tables, at, ver, role, signalled, web, boots>>

\* wg.Wait: the goroutine of the HTTP server ends with r.Run, that of the gRPC server
\* when Start returned; then main returns.
WaitReturns(r) ==
    /\ at[r] = "waiting" /\ web[r] = "ended" /\ rpc[r] \notin {"starting", "built"}
    /\ End(r)

Kill(r) == at[r] # "off" /\ End(r)

-----------------------------------------------------------------------------
StartNext == \E r \in Replicas :
    \/ Load(r) \/ initializeConnection(r) \/ configureConnectionPool(r)
    \/ checkMigration(r) \/ Up(r) \/ recordMigration(r)
    \/ Seed(r) \/ InitializeRedis(r) \/ RunHTTP(r) \/ NewAuthGRPCServer(r) \/ StartGRPC(r)
    \/ BeginRPC(r) \/ EndRPC(r) \/ RegisterVisitor(r)
    \/ Signal(r) \/ ReceiveSignal(r) \/ setupGracefulShutdown(r)
    \/ GracefulStop(r) \/ ShutdownTimeout(r) \/ WaitReturns(r) \/ Kill(r)

\* Goroutines that can run do, and timers fire.  RPCs need not end, and nobody is
\* obliged to kill the process.
StartFairness == \A r \in Replicas :
    WF_startVars(ReceiveSignal(r)) /\ WF_startVars(setupGracefulShutdown(r))
    /\ WF_startVars(GracefulStop(r)) /\ WF_startVars(ShutdownTimeout(r))
    /\ WF_startVars(WaitReturns(r)) /\ WF_startVars(RunHTTP(r))
    /\ WF_startVars(NewAuthGRPCServer(r)) /\ WF_startVars(StartGRPC(r))

-----------------------------------------------------------------------------
(* Properties.                                                             *)

\* RecordedIsApplied: a version in the table migrations has run to its end, whichever
\* replicas ran it and whenever they were killed, so skipping it is safe, and a replica
\* that seeds or serves has the whole schema (runMigration, RunMigrations).
RecordedIsApplied ==
    /\ migrations \subseteq schema
    /\ \A r \in Replicas : at[r] \notin {"off", "connect", "pool", "check", "up", "record"} =>
          schema = {Versions[i] : i \in 1..Len(Versions)}

\* SignalEndsProcess: after the signal, the servers shut down and the process ends
\* (main.go, "Wait for all goroutines to finish").
SignalEndsProcess == \A r \in Replicas : r \in signalled ~> at[r] = "off"

=============================================================================
