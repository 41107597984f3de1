----------------------------- MODULE StartupProofs -----------------------------
(***************************************************************************)
(* The commands keep their word for every set of deployments, roles and    *)
(* secrets, any limit of a response and any number of faults.              *)
(***************************************************************************)
EXTENDS Startup, ConfigurationProofs

\* The role of the deployment, whatever the secret.
Role == MigrationDatabase(deployment)["database_url"].role.name

\* The probe belongs to a doctor that is starting, and ends with a result; a response of
\* which nothing has come is empty; version is asked after health has answered.
SearchInv ==
  /\ SearchTypeOK
  /\ BodyIsBounded /\ TooLargeIsTooLarge /\ AvailableSaidSo
  /\ phase = "sent" => body = 0
  /\ phase # "idle" => search = "none"
  /\ request = "version" => "available" \in said

\* A command that is past its configuration has been accepted with it.
CommandInv ==
  /\ deployment \in Deployments
  /\ pc # "idle" => exit = "none"
  /\ phase # "idle" => pc = "starting" /\ command = "doctor"
  /\ pc \in {"binding", "serving"} => command = "serve"
  /\ pc \in {"starting", "binding", "serving"} /\ command # "migrate" =>
       RuntimeAccepts(Given) /\ TracingStarts(RuntimeConfig(Given))
  /\ pc = "starting" /\ command = "doctor" /\ (phase # "idle" \/ search = "ok") =>
       ClientBuilds(RuntimeConfig(Given))

\* What a future has found in order has been seen.
SeenInv ==
  /\ pc = "starting" /\ command # "migrate" =>
       /\ db = "ok" => "database" \in seen
       /\ st = "ok" => "storage" \in seen
  /\ GoodNewsIsTrue

\* What doctor has found in order still is, while nothing changes.
GreenInv ==
  /\ green = "asked" =>
       /\ command = "doctor"
       /\ pc = "starting" => (db = "ok" => DatabaseFits(Role)) /\ (st = "ok" => StorageFits)
  /\ green = "yes" => Sound(WithSecret(deployment, None)) /\ DatabaseFits(Role) /\ StorageFits
  /\ green = "yes" /\ command = "serve" /\ pc = "starting" => db # "failed" /\ st # "failed"
  /\ GreenMeansGo

MigratedInv ==
  /\ migrated => database = "current" /\ granted = {Role}
  /\ MigratedMeansServed

IInv == TypeOK /\ SearchInv /\ CommandInv /\ SeenInv /\ GreenInv /\ MigratedInv

-----------------------------------------------------------------------------
(* The search probe.                                                       *)

\* The limit is a number that can be added to.
LEMMA Limits ==
  /\ Limit \in Nat /\ Modulus \in Nat /\ 0 <= Limit /\ Limit < Modulus
  /\ \A n \in 0 .. MaxChunk : n \in Nat
BY SearchAssumption

\* The end of a probe, whatever its result, if that is true.
LEMMA SearchEndsInv ==
  ASSUME SearchInv, NEW result \in {"failed", "oversized"}, SearchEnds(result),
         said' = said, sent' \in Nat, result = "oversized" => sent' > Limit
  PROVE  SearchInv'
<1>1. SearchTypeOK'
  BY DEF SearchInv, SearchTypeOK, SearchEnds
<1>2. BodyIsBounded'
  <2>1. body' = 0 /\ phase' = "idle"
    BY DEF SearchEnds
  <2> QED
    BY <2>1, Limits DEF BodyIsBounded
<1>3. TooLargeIsTooLarge' /\ AvailableSaidSo'
  BY DEF TooLargeIsTooLarge, AvailableSaidSo, SearchEnds
<1>4. /\ phase' # "sent" /\ phase' = "idle"
      /\ request' # "version"
  BY DEF SearchEnds
<1> QED
  BY <1>1, <1>2, <1>3, <1>4 DEF SearchInv

\* A response begins; a chunk comes; a response is complete.
LEMMA RespondInv ==
  ASSUME SearchInv, NEW success \in BOOLEAN,
         NEW length \in (0 .. Limit + 1) \cup {Unannounced}, Respond(success, length)
  PROVE  SearchInv'
<1>1. sent' \in Nat /\ said' = said /\ (length # Unannounced => sent' = length)
  <2>1. length = Unannounced \/ length \in Nat
    BY SearchAssumption, UnannouncedAssumption
  <2> QED
    BY <2>1 DEF Respond
<1>2. CASE ~success /\ SearchEnds("failed")
  BY <1>1, <1>2, SearchEndsInv
<1>3. CASE success /\ length # Unannounced /\ length > Limit /\ SearchEnds("oversized")
  BY <1>1, <1>3, SearchEndsInv
<1>4. CASE /\ success /\ length \in {Unannounced} \cup 0 .. Limit
           /\ phase' = "body"
           /\ announced' = length
           /\ UNCHANGED <<request, body, search>>
  <2>1. body = 0 /\ phase # "idle" /\ (length = Unannounced => sent' = 0)
    BY DEF Respond, SearchInv
  <2>2. SearchTypeOK'
    BY <1>1, <1>4 DEF SearchInv, SearchTypeOK
  <2>3. BodyIsBounded'
    BY <1>4, <2>1 DEF SearchInv, BodyIsBounded
  <2>4. search' = "none"
    BY <1>4, <2>1 DEF SearchInv
  <2> QED
    BY <1>1, <1>4, <2>2, <2>3, <2>4 DEF SearchInv, TooLargeIsTooLarge, AvailableSaidSo
<1> QED
  BY <1>2, <1>3, <1>4 DEF Respond

LEMMA ChunkInv ==
  ASSUME SearchInv, NEW n \in 0 .. MaxChunk, Chunk(n)
  PROVE  SearchInv'
<1>1. /\ n \in Nat /\ body \in Nat /\ sent \in Nat /\ Limit \in Nat /\ Modulus \in Nat
      /\ Limit < Modulus
  BY Limits DEF SearchInv, SearchTypeOK
<1>5. phase = "body" /\ search = "none"
  BY DEF SearchInv, Chunk
<1>2. sent' \in Nat /\ said' = said
  BY <1>1 DEF Chunk
<1>3. CASE Fits(n) /\ body' = body + n /\ UNCHANGED <<request, phase, announced, search>>
  <2>1. body' \in Nat /\ body' <= Limit
    BY <1>1, <1>3 DEF Fits
  <2>2. announced = Unannounced => body' = sent'
    BY <1>3, <1>5 DEF Chunk, SearchInv, BodyIsBounded
  <2>4. SearchTypeOK'
    BY <1>2, <1>3, <2>1 DEF SearchInv, SearchTypeOK
  <2>5. BodyIsBounded'
    BY <1>3, <2>1, <2>2 DEF BodyIsBounded
  <2> QED
    BY <1>2, <1>3, <1>5, <2>4, <2>5 DEF SearchInv, TooLargeIsTooLarge, AvailableSaidSo
<1>4. CASE ~Fits(n) /\ SearchEnds("oversized")
  <2>1. body + n > Limit
    BY <1>1, <1>4 DEF Fits
  <2>2. announced = Unannounced
    <3> SUFFICES ASSUME announced # Unannounced PROVE FALSE
      OBVIOUS
    <3>1. announced \in 0 .. Limit
      BY DEF SearchInv, SearchTypeOK
    <3>2. body + n <= announced
      BY DEF Chunk
    <3> QED
      BY <1>1, <2>1, <3>1, <3>2
  <2>3. sent' = body + n
    BY <1>5, <2>2 DEF Chunk, SearchInv, BodyIsBounded
  <2> QED
    BY <1>2, <1>4, <2>1, <2>3, SearchEndsInv
<1> QED
  BY <1>3, <1>4 DEF Chunk

LEMMA DecodeInv ==
  ASSUME SearchInv, NEW content \in Contents, Decode(content)
  PROVE  SearchInv'
<1>1. CASE request = "health" /\ content = "available"
  <2>1. /\ Request("version") /\ said' = said \cup {content} /\ search' = search /\ search = "none"
    BY <1>1 DEF Decode, SearchInv
  <2>2. SearchTypeOK'
    BY <1>1, <2>1 DEF SearchInv, SearchTypeOK, Request, Contents
  <2>3. BodyIsBounded'
    BY <2>1, SearchAssumption DEF BodyIsBounded, Request
  <2> QED
    BY <1>1, <2>1, <2>2, <2>3 DEF SearchInv, Request, TooLargeIsTooLarge, AvailableSaidSo
<1>2. CASE request = "version" /\ content = "expected"
  <2>1. SearchEnds("ok") /\ said' = said \cup {content} /\ sent' = sent
    BY <1>2 DEF Decode
  <2>2. SearchTypeOK'
    BY <1>2, <2>1 DEF SearchInv, SearchTypeOK, SearchEnds, Contents
  <2>3. BodyIsBounded'
    BY <2>1, SearchAssumption DEF BodyIsBounded, SearchEnds
  <2>4. AvailableSaidSo'
    BY <1>2, <2>1 DEF SearchInv, AvailableSaidSo
  <2> QED
    BY <2>1, <2>2, <2>3, <2>4 DEF SearchInv, SearchEnds, TooLargeIsTooLarge
<1>3. CASE content = "other"
  <2>1. SearchEnds("failed") /\ said' = said /\ sent' \in Nat
    BY <1>3 DEF Decode, SearchInv, SearchTypeOK
  <2> QED
    BY <2>1, SearchEndsInv
<1> QED
  BY <1>1, <1>2, <1>3 DEF Decode

\* Every step of a probe preserves its invariant.
LEMMA SearchStepInv ==
  ASSUME SearchInv, SearchServer \/ TimesOut
  PROVE  SearchInv'
<1>1. CASE Break \/ TimesOut
  <2>1. SearchEnds("failed") /\ said' = said /\ sent' \in Nat
    BY <1>1 DEF Break, TimesOut, SearchInv, SearchTypeOK
  <2> QED
    BY <2>1, SearchEndsInv
<1> QED
  BY <1>1, RespondInv, ChunkInv, DecodeInv DEF SearchServer

-----------------------------------------------------------------------------
(* The configuration of a command.                                         *)

\* The role does not depend on the secret; without one, a command finds what the
\* deployment says; an accepted server has none, and a path that its storage accepts.
LEMMA GivenFacts ==
  ASSUME deployment \in Deployments
  PROVE  /\ RuntimeRole = Role
         /\ ApplicationRole(Given).name = Role
         /\ RuntimeAccepts(Given) =>
              secret = None /\ StorageAcceptsPath(RuntimeConfig(Given)["data_dir"])
         /\ secret = None => Given = WithSecret(deployment, None)
<1>1. "database_url" \in MigrationFields
  BY DEF MigrationFields
<1>2. \A u : /\ MigrationDatabase(WithSecret(deployment, u))["database_url"]
                   = RuntimeConfig(deployment)["database_url"]
             /\ RuntimeConfig(WithSecret(deployment, u))["database_url"]
                   = RuntimeConfig(deployment)["database_url"]
  BY <1>1, SameFields
<1>3. MigrationDatabase(deployment)["database_url"] = RuntimeConfig(deployment)["database_url"]
  <2>1. "database_url" \in Fields
    BY DEF Fields
  <2> QED
    BY <1>1, <2>1 DEF MigrationDatabase, RuntimeConfig, Loaded
<1>4. RuntimeRole = Role /\ ApplicationRole(Given).name = Role
  BY <1>2, <1>3 DEF RuntimeRole, Given, Role, ApplicationRole
<1>5. ASSUME RuntimeAccepts(Given)
      PROVE  secret = None /\ StorageAcceptsPath(RuntimeConfig(Given)["data_dir"])
  <2>1. Given.env["migration_url"] = None /\ Validates(RuntimeConfig(Given))
    BY <1>5 DEF RuntimeAccepts
  <2>2. secret = None
    BY <2>1, SecretIsApart DEF Given
  <2> QED
    BY <2>1, <2>2 DEF Validates, ValidDataDir, StorageAcceptsPath
<1> QED
  BY <1>4, <1>5 DEF Given

\* What a step that leaves the configuration alone does not change.
LEMMA SameGiven ==
  ASSUME UNCHANGED <<deployment, secret>>
  PROVE  Given' = Given /\ RuntimeRole' = RuntimeRole /\ Role' = Role
BY DEF Given, RuntimeRole, Role

\* The end of a command that finds the search idle or drops it.
LEMMA EndSearch ==
  ASSUME SearchInv, NEW result, End(result)
  PROVE  SearchInv'
<1>1. SearchTypeOK'
  BY DEF SearchInv, SearchTypeOK, End
<1>2. BodyIsBounded'
  BY Limits DEF BodyIsBounded, End
<1> QED
  BY <1>1, <1>2 DEF SearchInv, TooLargeIsTooLarge, AvailableSaidSo, End

\* A command that ends, for whatever reason but a good one, keeps the invariant.
LEMMA EndInv ==
  ASSUME IInv, NEW result \in {"ok", "refused", "startup", "server", "doctor", "killed"},
         End(result), Observe, UNCHANGED worldVars, UNCHANGED <<green, migrated>>,
         faults' \in 0 .. MaxFaults,
         pc # "idle",
         result = "ok" => command # "doctor",
         result \in {"refused", "startup"} => ~(green = "yes" /\ command = "serve" /\ secret = None)
  PROVE  IInv'
<1>1. SearchInv'
  BY EndSearch DEF IInv
<1>2. UNCHANGED <<deployment, secret, command, database, granted, tree, db, st, said, search>>
  BY DEF End, worldVars, commandVars
<1>3. Given' = Given /\ Role' = Role
  BY <1>2, SameGiven
<1>4. seen' = seen /\ pc' = "idle" /\ exit' = result /\ phase' = "idle"
  BY DEF End, Observe
<1>5. TypeOK'
  BY <1>1, <1>2, <1>4 DEF IInv, TypeOK, SearchInv
<1>6. CommandInv'
  BY <1>2, <1>3, <1>4 DEF IInv, CommandInv
<1>7. SeenInv'
  BY <1>2, <1>4 DEF IInv, SeenInv, GoodNewsIsTrue
<1>8. GreenInv'
  BY <1>2, <1>3, <1>4 DEF IInv, GreenInv, GreenMeansGo, DatabaseFits, StorageFits
<1>9. MigratedInv'
  BY <1>2, <1>3, <1>4 DEF IInv, MigratedInv, MigratedMeansServed
<1> QED
  BY <1>1, <1>5, <1>6, <1>7, <1>8, <1>9 DEF IInv

-----------------------------------------------------------------------------
(* The steps of the commands.                                              *)

\* What a database can be.
LEMMA DatabaseStates ==
  ASSUME NEW d \in Databases
  PROVE  d.state \in {"down", "foreign", "outdated", "current"}
<1>1. CASE d \in [state : {"current"}, granted : SUBSET Roles]
  BY <1>1
<1>2. CASE d \in [state : {"down", "foreign", "outdated"}, granted : {{}}]
  BY <1>2
<1> QED
  BY <1>1, <1>2 DEF Databases

LEMMA InitIInv == Init => IInv
<1> SUFFICES ASSUME Init PROVE IInv
  OBVIOUS
<1>1. SearchInv
  BY Limits DEF Init, SearchInit, SearchInv, SearchTypeOK, BodyIsBounded, TooLargeIsTooLarge,
                AvailableSaidSo
<1>2. TypeOK
  <2>1. database \in {"down", "foreign", "outdated", "current"}
    BY DatabaseStates DEF Init
  <2>2. None \in Secrets /\ 0 \in 0 .. MaxFaults
    BY StartupAssumption
  <2>3. /\ command = "migrate" /\ secret = None /\ pc = "idle" /\ exit = "none" /\ db = "off"
        /\ st = "off" /\ tree \in Trees /\ seen = {} /\ green = "no" /\ migrated = FALSE /\ faults = 0
    BY DEF Init
  <2> QED
    BY <1>1, <2>1, <2>2, <2>3 DEF TypeOK, SearchInv
<1>3. CommandInv /\ SeenInv /\ GreenInv /\ MigratedInv
  BY DEF Init, SearchInit, CommandInv, SeenInv, GoodNewsIsTrue, GreenInv, GreenMeansGo, MigratedInv,
         MigratedMeansServed
<1> QED
  BY <1>1, <1>2, <1>3 DEF IInv

LEMMA BeginInv ==
  ASSUME IInv, NEW c \in {"serve", "doctor", "migrate"}, NEW s \in Secrets, Begin(c, s), Observe
  PROVE  IInv'
<1>1. /\ pc' = "loading" /\ exit' = "none" /\ db' = "off" /\ st' = "off" /\ seen' = {}
      /\ command' = c /\ secret' = s /\ phase' = "idle"
      /\ UNCHANGED <<deployment, database, granted, tree, migrated, faults>>
      /\ green' = "asked" => c = "doctor"
      /\ green' \in {"no", "asked", "yes"}
      /\ green' = "yes" => green = "yes"
  BY DEF Begin, SearchReset, Observe, worldVars, IInv, TypeOK
<1>2. SearchInv'
  BY Limits DEF Begin, SearchReset, SearchInv, SearchTypeOK, BodyIsBounded, TooLargeIsTooLarge,
                AvailableSaidSo
<1>3. TypeOK'
  BY <1>1, <1>2 DEF IInv, TypeOK, SearchInv
<1>4. CommandInv' /\ SeenInv'
  BY <1>1 DEF IInv, CommandInv, SeenInv, GoodNewsIsTrue
<1>5. Role' = Role
  BY <1>1 DEF Role
<1>6. GreenInv'
  BY <1>1, <1>5 DEF IInv, GreenInv, GreenMeansGo, DatabaseFits, StorageFits
<1>7. MigratedInv'
  BY <1>1, <1>5 DEF IInv, MigratedInv, MigratedMeansServed
<1> QED
  BY <1>2, <1>3, <1>4, <1>6, <1>7 DEF IInv

\* A deployment that doctor has approved is accepted again.
LEMMA GreenIsAccepted ==
  ASSUME IInv, green = "yes", command = "serve", secret = None
  PROVE  Accepted /\ ClientBuilds(RuntimeConfig(Given))
BY GivenFacts DEF IInv, CommandInv, GreenInv, Sound, Accepted

LEMMA RefuseInv ==
  ASSUME IInv, Refuse, Observe
  PROVE  IInv'
<1>1. ~(green = "yes" /\ command = "serve" /\ secret = None)
  BY GreenIsAccepted DEF Refuse
<1> QED
  BY <1>1, EndInv DEF Refuse, historyVars, IInv, TypeOK

\* A command starts; what it has been accepted with is known from now on.
LEMMA StartInv ==
  ASSUME IInv, pc = "loading", Accepted, Observe, UNCHANGED <<worldVars, commandVars, exit, historyVars>>,
         pc' = "starting", db' = "connecting", st' \in {st, "preparing"},
         command # "migrate" => st' = "preparing",
         SearchInv',
         phase' # "idle" => command = "doctor",
         command = "doctor" /\ (phase' # "idle" \/ search' = "ok") => ClientBuilds(RuntimeConfig(Given))
  PROVE  IInv'
<1>1. /\ UNCHANGED <<deployment, database, granted, tree, command, secret, green, migrated, faults>>
      /\ seen' = seen \cup Facts'
      /\ exit' = "none"
  BY DEF worldVars, commandVars, historyVars, Observe, IInv, CommandInv
<1>2. Given' = Given /\ Role' = Role
  BY <1>1, SameGiven
<1>3. TypeOK'
  <2>1. seen' \subseteq {"database", "storage"}
    BY <1>1 DEF IInv, TypeOK, Facts
  <2> QED
    BY <1>1, <2>1 DEF IInv, TypeOK, SearchInv
<1>4. CommandInv'
  BY <1>1, <1>2 DEF IInv, CommandInv, Accepted
<1>5. SeenInv'
  BY <1>1 DEF SeenInv, GoodNewsIsTrue
<1>6. GreenInv'
  BY <1>1, <1>2 DEF IInv, GreenInv, GreenMeansGo, DatabaseFits, StorageFits
<1>7. MigratedInv'
  BY <1>1, <1>2 DEF IInv, MigratedInv, MigratedMeansServed
<1> QED
  BY <1>3, <1>4, <1>5, <1>6, <1>7 DEF IInv

LEMMA LoadInv ==
  ASSUME IInv, Load, Observe
  PROVE  IInv'
<1>1. CASE Refuse
  BY <1>1, RefuseInv
<1>2. CASE StartServe
  <2>1. CASE ClientBuilds(RuntimeConfig(Given))
    <3>1. phase = "idle" /\ UNCHANGED searchVars /\ UNCHANGED <<commandVars, exit>>
      BY <1>2, <2>1 DEF StartServe, IInv, CommandInv
    <3>2. SearchInv'
      BY <3>1 DEF IInv, SearchInv, searchVars, SearchTypeOK, BodyIsBounded, TooLargeIsTooLarge,
                  AvailableSaidSo
    <3> QED
      BY <1>2, <2>1, <3>1, <3>2, StartInv DEF StartServe, searchVars
  <2>2. CASE ~ClientBuilds(RuntimeConfig(Given))
    <3>1. ~(green = "yes" /\ command = "serve" /\ secret = None)
      BY <2>2, GreenIsAccepted
    <3>2. End("startup") /\ UNCHANGED <<worldVars, historyVars>> /\ pc = "loading"
      BY <1>2, <2>2 DEF StartServe
    <3> QED
      BY <3>1, <3>2, EndInv DEF historyVars, IInv, TypeOK
  <2> QED
    BY <2>1, <2>2
<1>3. CASE StartDoctor
  <2>1. CASE ClientBuilds(RuntimeConfig(Given))
    <3>1. Probe
      BY <1>3, <2>1 DEF StartDoctor
    <3>2. SearchTypeOK'
      BY <3>1 DEF Probe, Request, SearchTypeOK
    <3>3. BodyIsBounded'
      BY <3>1, Limits DEF Probe, Request, BodyIsBounded
    <3>4. SearchInv'
      BY <3>1, <3>2, <3>3 DEF Probe, Request, SearchInv, TooLargeIsTooLarge, AvailableSaidSo
    <3> QED
      BY <1>3, <2>1, <3>4, StartInv DEF StartDoctor
  <2>2. CASE ~ClientBuilds(RuntimeConfig(Given))
    <3>1. /\ search' = "failed" /\ UNCHANGED <<request, phase, announced, body, sent, said>>
          /\ phase = "idle"
      BY <1>3, <2>2 DEF StartDoctor, IInv, CommandInv
    <3>2. SearchTypeOK' /\ BodyIsBounded'
      BY <3>1 DEF IInv, SearchInv, SearchTypeOK, BodyIsBounded
    <3>3. SearchInv'
      BY <3>1, <3>2 DEF IInv, SearchInv, TooLargeIsTooLarge, AvailableSaidSo
    <3> QED
      BY <1>3, <3>1, <3>3, StartInv DEF StartDoctor
  <2> QED
    BY <2>1, <2>2
<1>4. CASE StartMigrate
  <2>1. phase = "idle" /\ UNCHANGED searchVars
    BY <1>4 DEF StartMigrate, IInv, CommandInv
  <2>2. SearchInv'
    BY <2>1 DEF IInv, SearchInv, searchVars, SearchTypeOK, BodyIsBounded, TooLargeIsTooLarge,
                AvailableSaidSo
  <2> QED
    BY <1>4, <2>1, <2>2, StartInv DEF StartMigrate, searchVars
<1> QED
  BY <1>1, <1>2, <1>3, <1>4 DEF Load

\* A step of a command that is starting: it changes one of its futures, or the world
\* together with it, as far as the parts of the invariant allow.
LEMMA ProgressInv ==
  ASSUME IInv, pc = "starting", Observe, UNCHANGED <<deployment, commandVars, pc, exit, green, faults>>,
         SearchInv', TypeOK', UNCHANGED searchVars \/ (db' = db /\ st' = st /\ command = "doctor"),
         search' = "ok" => search = "ok" \/ phase # "idle",
         phase' # "idle" => phase # "idle",
         command # "migrate" /\ db # "ok" /\ db' = "ok" => DatabaseFits(Role)',
         command # "migrate" /\ st # "ok" /\ st' = "ok" => StorageFits',
         DatabaseFits(Role) => DatabaseFits(Role)',
         StorageFits => StorageFits',
         command # "migrate" => UNCHANGED <<database, granted>>,
         green = "yes" /\ command = "serve" /\ db # "failed" => db' # "failed",
         green = "yes" /\ command = "serve" /\ st # "failed" => st' # "failed",
         MigratedInv'
  PROVE  IInv'
<1>1. UNCHANGED <<deployment, secret, command, green, faults, pc, exit>> /\ seen' = seen \cup Facts'
  BY DEF commandVars, Observe
<1>2. Given' = Given /\ RuntimeRole' = Role /\ Role' = Role
  BY <1>1, SameGiven, GivenFacts DEF IInv, CommandInv
<1>3. CommandInv'
  BY <1>1, <1>2 DEF IInv, CommandInv
<1>4. SeenInv'
  <2>1. ASSUME command # "migrate", db' = "ok" PROVE "database" \in seen'
    BY <1>1, <1>2, <2>1 DEF IInv, SeenInv, Facts
  <2>2. ASSUME command # "migrate", st' = "ok" PROVE "storage" \in seen'
    BY <1>1, <2>2 DEF IInv, SeenInv, Facts
  <2>3. exit' = "none" /\ pc' = "starting"
    BY <1>1 DEF IInv, CommandInv
  <2> QED
    BY <1>1, <2>1, <2>2, <2>3 DEF SeenInv, GoodNewsIsTrue
<1>5. GreenInv'
  <2>1. green = "asked" /\ db' = "ok" => DatabaseFits(Role)'
    BY DEF IInv, GreenInv
  <2>2. green = "asked" /\ st' = "ok" => StorageFits'
    BY DEF IInv, GreenInv
  <2>3. green = "yes" => Sound(WithSecret(deployment, None))' /\ DatabaseFits(Role)' /\ StorageFits'
    BY <1>1 DEF IInv, GreenInv
  <2>4. GreenMeansGo'
    BY <1>1 DEF IInv, CommandInv, GreenMeansGo
  <2> QED
    BY <1>1, <2>1, <2>2, <2>3, <2>4 DEF IInv, GreenInv
<1> QED
  BY <1>3, <1>4, <1>5 DEF IInv

\* The search is left alone.
LEMMA SearchAlone ==
  ASSUME SearchInv, UNCHANGED searchVars
  PROVE  /\ SearchInv'
         /\ search' = "ok" => search = "ok" \/ phase # "idle"
         /\ phase' # "idle" => phase # "idle"
BY DEF SearchInv, searchVars, SearchTypeOK, BodyIsBounded, TooLargeIsTooLarge, AvailableSaidSo

\* What was seen is what there is to see.
LEMMA SeenType ==
  ASSUME TypeOK, Observe
  PROVE  seen' \subseteq {"database", "storage"}
BY DEF TypeOK, Observe, Facts

LEMMA ConnectInv ==
  ASSUME IInv, Connect, Observe
  PROVE  IInv'
<1>1. /\ pc = "starting" /\ db = "connecting"
      /\ db' = IF database = "down" THEN "failed" ELSE "connected"
      /\ UNCHANGED <<worldVars, commandVars, pc, exit, st, searchVars, historyVars>>
  BY DEF Connect
<1>2. Role' = Role /\ UNCHANGED <<database, granted, tree, green, migrated, faults, command, secret>>
  BY <1>1 DEF worldVars, commandVars, historyVars, Role
<1>3. TypeOK'
  BY <1>1, <1>2, SearchAlone, SeenType DEF IInv, TypeOK, SearchInv
<1>4. MigratedInv'
  BY <1>1, <1>2 DEF IInv, MigratedInv, MigratedMeansServed
<1>5. green = "yes" => database # "down"
  BY DEF IInv, GreenInv, DatabaseFits
<1>6. DatabaseFits(Role)' = DatabaseFits(Role) /\ StorageFits' = StorageFits
  BY <1>2 DEF DatabaseFits, StorageFits
<1>7. db' # "ok"
  BY <1>1
<1> QED
  BY <1>1, <1>2, <1>3, <1>4, <1>5, <1>6, <1>7, SearchAlone, ProgressInv
     DEF IInv, worldVars, historyVars

LEMMA DiagnoseInv ==
  ASSUME IInv, Diagnose, Observe
  PROVE  IInv'
<1>1. /\ pc = "starting" /\ command # "migrate"
      /\ db' = IF DatabaseFits(RuntimeRole) THEN "ok" ELSE "failed"
      /\ UNCHANGED <<worldVars, commandVars, pc, exit, st, searchVars, historyVars>>
  BY DEF Diagnose
<1>2. Role' = Role /\ UNCHANGED <<database, granted, tree, green, migrated, faults, command, secret>>
  BY <1>1 DEF worldVars, commandVars, historyVars, Role
<1>3. TypeOK'
  BY <1>1, <1>2, SearchAlone, SeenType DEF IInv, TypeOK, SearchInv
<1>4. RuntimeRole = Role
  BY GivenFacts DEF IInv, CommandInv
<1>5. DatabaseFits(Role)' = DatabaseFits(Role) /\ StorageFits' = StorageFits
  BY <1>2 DEF DatabaseFits, StorageFits
<1>6. migrated => DatabaseFits(Role)
  BY DEF IInv, MigratedInv, DatabaseFits
<1>7. MigratedInv'
  BY <1>1, <1>2, <1>4, <1>6 DEF IInv, MigratedInv, MigratedMeansServed
<1>8. green = "yes" => DatabaseFits(Role)
  BY DEF IInv, GreenInv
<1> QED
  BY <1>1, <1>2, <1>3, <1>4, <1>5, <1>7, <1>8, SearchAlone, ProgressInv
     DEF IInv, worldVars, historyVars

LEMMA MigrateInv ==
  ASSUME IInv, Migrate, Observe
  PROVE  IInv'
<1>1. /\ pc = "starting" /\ command = "migrate"
      /\ UNCHANGED <<deployment, tree, commandVars, pc, exit, st, searchVars, green, faults>>
  BY DEF Migrate
<1>2. Role' = Role /\ command' = command /\ secret' = secret
  BY <1>1 DEF commandVars, Role
<1>3. ApplicationRole(Given).name = Role
  BY GivenFacts DEF IInv, CommandInv
<1>4. \/ /\ database = "outdated" /\ database' = "current" /\ granted' = {Role} /\ migrated' = TRUE
         /\ db' \in {"ok", "failed"}
      \/ db' \in {"ok", "failed"} /\ UNCHANGED <<database, granted, migrated>>
  BY <1>3 DEF Migrate
<1>5. TypeOK'
  <2>1. db' \in {"ok", "failed"}
    BY <1>4
  <2>2. database' \in {"down", "foreign", "outdated", "current"} /\ migrated' \in BOOLEAN
    BY <1>4 DEF IInv, TypeOK
  <2> QED
    BY <1>1, <1>2, <2>1, <2>2, SearchAlone, SeenType DEF IInv, TypeOK, SearchInv
<1>6. MigratedInv'
  BY <1>1, <1>2, <1>4 DEF IInv, MigratedInv, MigratedMeansServed
<1>7. (DatabaseFits(Role) => DatabaseFits(Role)') /\ StorageFits' = StorageFits
  BY <1>1, <1>2, <1>4 DEF DatabaseFits, StorageFits
<1> QED
  BY <1>1, <1>2, <1>5, <1>6, <1>7, SearchAlone, ProgressInv DEF IInv

LEMMA StorageInv ==
  ASSUME IInv, StorageStep, Observe
  PROVE  IInv'
<1>1. /\ pc = "starting" /\ st \in {"preparing", "prepared"}
      /\ UNCHANGED <<deployment, database, granted, commandVars, pc, exit, db, searchVars, historyVars>>
  BY DEF StorageStep, Prepare, Status, worldVars
<1>2. /\ Role' = Role
      /\ UNCHANGED <<command, secret, green, migrated, faults>>
  BY <1>1 DEF commandVars, historyVars, Role
<1>3. /\ tree' \in Trees /\ st' \in {"preparing", "prepared", "ok", "failed"}
      /\ st' = "ok" => tree' = "ready"
      /\ tree = "ready" => tree' = "ready"
      /\ tree = "ready" /\ StorageAcceptsPath(RuntimeConfig(Given)["data_dir"]) => st' # "failed"
  <2>1. CASE Prepare
    BY <1>1, <2>1 DEF Prepare, Trees, IInv, TypeOK
  <2>2. CASE Status
    BY <1>1, <2>2 DEF Status, StorageFits, worldVars, Trees, IInv, TypeOK
  <2> QED
    BY <2>1, <2>2 DEF StorageStep
<1>4. TypeOK'
  BY <1>1, <1>2, <1>3, SearchAlone, SeenType DEF IInv, TypeOK, SearchInv
<1>5. MigratedInv'
  BY <1>1, <1>2 DEF IInv, MigratedInv, MigratedMeansServed
<1>6. DatabaseFits(Role)' = DatabaseFits(Role) /\ (StorageFits => StorageFits')
  BY <1>1, <1>2, <1>3 DEF DatabaseFits, StorageFits
<1>7. green = "yes" /\ command = "serve" => st' # "failed"
  BY <1>1, <1>3, GivenFacts DEF IInv, CommandInv, GreenInv, StorageFits
<1>8. st' = "ok" => StorageFits'
  BY <1>3 DEF StorageFits
<1> QED
  BY <1>1, <1>2, <1>4, <1>5, <1>6, <1>7, <1>8, SearchAlone, ProgressInv DEF IInv

LEMMA SearchStepIInv ==
  ASSUME IInv, Search \/ SearchTimer, Observe
  PROVE  IInv'
<1>1. /\ SearchServer \/ TimesOut
      /\ UNCHANGED <<worldVars, commandVars, pc, exit, db, st, historyVars>>
  BY DEF Search, SearchTimer, OnlySearch
<1>2. phase # "idle"
  BY <1>1 DEF SearchServer, TimesOut, Respond, Chunk, Decode, Break
<1>3. pc = "starting" /\ command = "doctor"
  BY <1>2 DEF IInv, CommandInv
<1>4. /\ Role' = Role
      /\ UNCHANGED <<deployment, database, granted, tree, command, secret, green, migrated, faults>>
  BY <1>1 DEF worldVars, commandVars, historyVars, Role
<1>5. SearchInv'
  BY <1>1, SearchStepInv DEF IInv
<1>6. TypeOK'
  BY <1>1, <1>4, <1>5, SeenType DEF IInv, TypeOK, SearchInv
<1>7. MigratedInv'
  BY <1>1, <1>4 DEF IInv, MigratedInv, MigratedMeansServed
<1>8. DatabaseFits(Role)' = DatabaseFits(Role) /\ StorageFits' = StorageFits
  BY <1>4 DEF DatabaseFits, StorageFits
<1> QED
  BY <1>1, <1>2, <1>3, <1>4, <1>5, <1>6, <1>7, <1>8, ProgressInv DEF IInv

\* A step that neither ends a command nor changes anything that it depends on.
LEMMA FinishInv ==
  ASSUME IInv, Finish \/ Stop, Observe
  PROVE  IInv'
<1> DEFINE Goes(to) == pc' = to /\ UNCHANGED <<commandVars, exit, db, st, searchVars>>
<1>1. CASE Connected
  <2>1. pc = "starting" /\ command = "serve" /\ UNCHANGED <<worldVars, historyVars>>
    BY <1>1 DEF Connected
  <2>2. CASE db = "ok" /\ st = "ok"
    <3>1. Goes("binding") /\ pc' = "binding" /\ exit' = exit /\ db' = db /\ st' = st
      BY <1>1, <2>2 DEF Connected
    <3>2. UNCHANGED <<worldVars, deployment, secret, command, database, granted, tree, green, migrated, faults>>
      BY <2>1, <3>1 DEF worldVars, historyVars, commandVars
    <3>3. seen' = seen /\ seen = {"database", "storage"}
      <4>1. "database" \in seen /\ "storage" \in seen
        BY <2>1, <2>2 DEF IInv, SeenInv
      <4> QED
        BY <3>1, <4>1 DEF Observe, IInv, TypeOK
    <3>4. RuntimeAccepts(Given) /\ TracingStarts(RuntimeConfig(Given)) /\ secret = None
      BY <2>1, GivenFacts DEF IInv, CommandInv
    <3>5. phase = "idle"
      BY <2>1 DEF IInv, CommandInv
    <3>6. SearchInv' /\ phase' = "idle"
      BY <3>1, <3>5, SearchAlone DEF IInv
    <3>7. TypeOK'
      BY <3>1, <3>2, <3>3, <3>6 DEF IInv, TypeOK, SearchInv
    <3>8. Given' = Given /\ Role' = Role
      BY <3>2, SameGiven
    <3>9. CommandInv'
      BY <2>1, <3>1, <3>2, <3>4, <3>6, <3>8 DEF IInv, CommandInv
    <3>10. SeenInv'
      BY <2>1, <3>1, <3>2, <3>3, <3>4 DEF SeenInv, GoodNewsIsTrue
    <3>11. GreenInv'
      BY <2>1, <3>1, <3>2, <3>8 DEF IInv, GreenInv, GreenMeansGo, DatabaseFits, StorageFits
    <3>12. MigratedInv'
      BY <3>1, <3>2, <3>8 DEF IInv, MigratedInv, MigratedMeansServed
    <3> QED
      BY <3>6, <3>7, <3>9, <3>10, <3>11, <3>12 DEF IInv
  <2>3. CASE ~(db = "ok" /\ st = "ok")
    <3>1. End("startup") /\ (db = "failed" \/ st = "failed")
      BY <1>1, <2>3 DEF Connected, Finished
    <3>2. ~(green = "yes" /\ command = "serve" /\ secret = None)
      BY <2>1, <3>1 DEF IInv, GreenInv
    <3> QED
      BY <2>1, <3>1, <3>2, EndInv DEF historyVars, IInv, TypeOK
  <2> QED
    BY <2>2, <2>3
<1>2. CASE (Bind \/ Stop) /\ Goes("serving")
  <2>1. pc \in {"binding", "serving"} /\ UNCHANGED <<worldVars, historyVars>>
    BY <1>2 DEF Bind, Stop
  <2>2. pc' = "serving" /\ exit' = exit /\ db' = db /\ st' = st
    BY <1>2
  <2>3. UNCHANGED <<deployment, secret, command, database, granted, tree, green, migrated, faults>>
    BY <1>2, <2>1 DEF worldVars, historyVars, commandVars
  <2>4. seen' = seen
    BY <2>2 DEF Observe
  <2>5. command = "serve" /\ phase = "idle"
    BY <2>1 DEF IInv, CommandInv
  <2>6. SearchInv' /\ phase' = "idle"
    BY <1>2, <2>5, SearchAlone DEF IInv
  <2>7. TypeOK'
    BY <2>2, <2>3, <2>4, <2>6 DEF IInv, TypeOK, SearchInv
  <2>8. Given' = Given /\ Role' = Role
    BY <2>3, SameGiven
  <2>9. CommandInv' /\ SeenInv'
    BY <2>1, <2>2, <2>3, <2>4, <2>5, <2>6, <2>8 DEF IInv, CommandInv, SeenInv, GoodNewsIsTrue
  <2>10. GreenInv' /\ MigratedInv'
    BY <2>1, <2>2, <2>3, <2>5, <2>8
       DEF IInv, GreenInv, GreenMeansGo, DatabaseFits, StorageFits, MigratedInv, MigratedMeansServed
  <2> QED
    BY <2>6, <2>7, <2>9, <2>10 DEF IInv
<1>3. CASE (Bind \/ Stop) /\ ~Goes("serving")
  <2>1. /\ pc \in {"binding", "serving"} /\ UNCHANGED <<worldVars, historyVars>>
        /\ End("ok") \/ End("server")
    BY <1>3 DEF Bind, Stop
  <2>2. command = "serve"
    BY <2>1 DEF IInv, CommandInv
  <2> QED
    BY <2>1, <2>2, EndInv DEF historyVars, IInv, TypeOK
<1>4. CASE MigrateEnds
  <2>1. /\ pc = "starting" /\ command = "migrate" /\ UNCHANGED <<worldVars, historyVars>>
        /\ End("ok") \/ End("startup")
    BY <1>4 DEF MigrateEnds
  <2> QED
    BY <2>1, EndInv DEF historyVars, IInv, TypeOK
<1>5. CASE Report
  <2> DEFINE healthy == db = "ok" /\ st = "ok" /\ search = "ok"
  <2>1. /\ pc = "starting" /\ command = "doctor"
        /\ End(IF healthy THEN "ok" ELSE "doctor")
        /\ green' = IF healthy /\ green = "asked" THEN "yes" ELSE "no"
        /\ UNCHANGED <<worldVars, migrated, faults>>
    BY <1>5 DEF Report
  <2>2. /\ UNCHANGED <<deployment, secret, command, database, granted, tree, db, st, said, search>>
        /\ pc' = "idle" /\ phase' = "idle" /\ exit' = IF healthy THEN "ok" ELSE "doctor"
    BY <2>1 DEF End, worldVars, commandVars
  <2>3. SearchInv'
    BY <2>1, EndSearch DEF IInv
  <2>4. seen' = seen
    BY <2>2 DEF Observe
  <2>5. TypeOK'
    BY <2>1, <2>2, <2>3, <2>4 DEF IInv, TypeOK, SearchInv
  <2>6. Given' = Given /\ Role' = Role
    BY <2>2, SameGiven
  <2>7. CommandInv'
    BY <2>2, <2>6 DEF IInv, CommandInv
  <2>8. SeenInv'
    <3>1. healthy => seen = {"database", "storage"}
      BY <2>1 DEF IInv, SeenInv, TypeOK
    <3>2. healthy => {"available", "expected"} \subseteq said
      BY DEF IInv, SearchInv, AvailableSaidSo
    <3> QED
      BY <2>2, <2>4, <3>1, <3>2 DEF SeenInv, GoodNewsIsTrue
  <2>9. GreenInv'
    <3>1. ASSUME green' = "yes"
          PROVE  Sound(WithSecret(deployment, None)) /\ DatabaseFits(Role) /\ StorageFits
      <4>1. healthy /\ green = "asked"
        BY <2>1, <3>1
      <4>2. DatabaseFits(Role) /\ StorageFits
        BY <2>1, <4>1 DEF IInv, GreenInv
      <4>3. Sound(Given) /\ secret = None
        BY <2>1, <4>1, GivenFacts DEF IInv, CommandInv, Sound
      <4> QED
        BY <4>2, <4>3 DEF Given
    <3> QED
      BY <2>1, <2>2, <2>6, <3>1 DEF GreenInv, GreenMeansGo, DatabaseFits, StorageFits
  <2>10. MigratedInv'
    BY <2>1, <2>2, <2>6 DEF IInv, MigratedInv, MigratedMeansServed
  <2> QED
    BY <2>3, <2>5, <2>7, <2>8, <2>9, <2>10 DEF IInv
<1> QED
  BY <1>1, <1>2, <1>3, <1>4, <1>5 DEF Finish

LEMMA KillInv ==
  ASSUME IInv, Kill, Observe
  PROVE  IInv'
<1>1. faults' \in 0 .. MaxFaults
  BY StartupAssumption DEF Kill, Fault, IInv, TypeOK
<1> QED
  BY <1>1, EndInv DEF Kill

\* An intervention: what was known of the world is known no more.
LEMMA ChangeInv ==
  ASSUME IInv, Observe, (\E d \in Databases : ChangeDatabase(d)) \/ (\E t \in Trees : ChangeTree(t))
  PROVE  IInv'
<1>1. /\ UNCHANGED <<deployment, commandVars, pc, exit, db, st, searchVars>>
      /\ green' = "no" /\ faults' = faults + 1 /\ faults < MaxFaults
  BY DEF ChangeDatabase, ChangeTree, Fault
<1>2. UNCHANGED <<command, secret>> /\ Given' = Given /\ Role' = Role
  BY <1>1, SameGiven DEF commandVars
<1>3. \/ migrated' = FALSE
      \/ UNCHANGED <<database, granted, migrated>>
  BY DEF ChangeDatabase, ChangeTree
<1>4. database' \in {"down", "foreign", "outdated", "current"} /\ tree' \in Trees
  BY DatabaseStates DEF ChangeDatabase, ChangeTree, IInv, TypeOK
<1>5. faults' \in 0 .. MaxFaults
  BY <1>1, StartupAssumption DEF IInv, TypeOK
<1>6. SearchInv' /\ search' = search /\ phase' = phase /\ said' = said
  BY <1>1, SearchAlone DEF IInv, searchVars
<1>7. TypeOK'
  <2>1. migrated' \in BOOLEAN
    BY <1>3 DEF IInv, TypeOK
  <2>2. SearchTypeOK' /\ seen' \subseteq {"database", "storage"}
    BY <1>6, SeenType DEF IInv, SearchInv
  <2> QED
    BY <1>1, <1>2, <1>4, <1>5, <2>1, <2>2 DEF IInv, TypeOK
<1>8. CommandInv'
  BY <1>1, <1>2, <1>6 DEF IInv, CommandInv
<1>9. SeenInv'
  <2>1. pc = "starting" => seen \subseteq seen'
    BY <1>1 DEF Observe
  <2>2. pc \in {"idle", "binding", "serving"} => seen' = seen
    BY <1>1 DEF Observe
  <2>3. exit = "ok" => pc = "idle"
    BY DEF IInv, CommandInv, TypeOK
  <2> QED
    BY <1>1, <1>2, <1>6, <2>1, <2>2, <2>3 DEF IInv, SeenInv, GoodNewsIsTrue
<1>10. GreenInv' /\ MigratedInv'
  BY <1>1, <1>2, <1>3 DEF IInv, GreenInv, GreenMeansGo, MigratedInv, MigratedMeansServed
<1> QED
  BY <1>6, <1>7, <1>8, <1>9, <1>10 DEF IInv

LEMMA NextIInv == IInv /\ [Next]_vars => IInv'
<1> SUFFICES ASSUME IInv, [Next]_vars PROVE IInv'
  OBVIOUS
<1>1. CASE UNCHANGED vars
  <2>1. /\ UNCHANGED <<deployment, command, secret, pc, exit, db, st, database, granted, tree, seen, green,
                       migrated, faults>>
        /\ UNCHANGED searchVars
    BY <1>1 DEF vars, worldVars, commandVars, historyVars
  <2>2. SearchInv' /\ search' = search /\ phase' = phase /\ said' = said
    BY <2>1, SearchAlone DEF IInv, searchVars
  <2>3. Given' = Given /\ Role' = Role
    BY <2>1, SameGiven
  <2>4. TypeOK'
    BY <2>1, <2>2 DEF IInv, TypeOK, SearchInv
  <2>5. CommandInv' /\ SeenInv'
    BY <2>1, <2>2, <2>3 DEF IInv, CommandInv, SeenInv, GoodNewsIsTrue
  <2>6. GreenInv' /\ MigratedInv'
    BY <2>1, <2>3 DEF IInv, GreenInv, GreenMeansGo, DatabaseFits, StorageFits, MigratedInv,
                      MigratedMeansServed
  <2> QED
    BY <2>2, <2>4, <2>5, <2>6 DEF IInv
<1>2. CASE Next
  <2>1. Observe
    BY <1>2 DEF Next
  <2> QED
    BY <1>2, <2>1, BeginInv, LoadInv, ConnectInv, DiagnoseInv, MigrateInv, StorageInv, SearchStepIInv,
       FinishInv, KillInv, ChangeInv
       DEF Next, DatabaseStep
<1> QED
  BY <1>1, <1>2

LEMMA Invariance == Spec => []IInv
BY InitIInv, NextIInv, PTL DEF Spec

-----------------------------------------------------------------------------
(* What follows.                                                           *)

\* The commands' state has its types, and no response is read that announces too much.
THEOREM StartupIsTyped == Spec => []TypeOK
<1>1. IInv => TypeOK
  BY DEF IInv
<1> QED
  BY <1>1, Invariance, PTL

\* For every limit below the width of a length, and however a response is cut: no more
\* is kept than the limit, and only what is longer is refused for it.
THEOREM ProbeIsBounded == Spec => []LimitHolds
<1>1. IInv => LimitHolds
  BY DEF IInv, SearchInv, LimitHolds
<1> QED
  BY <1>1, Invariance, PTL

\* Whatever happens to the world meanwhile: what serves or is reported healthy was so.
THEOREM StartupIsHonest == Spec => []GoodNewsIsTrue
<1>1. IInv => GoodNewsIsTrue
  BY DEF IInv, SeenInv
<1> QED
  BY <1>1, Invariance, PTL

\* For every deployment: doctor's approval holds until something is changed.
THEOREM DoctorIsRight == Spec => []GreenMeansGo
<1>1. IInv => GreenMeansGo
  BY DEF IInv, GreenInv
<1> QED
  BY <1>1, Invariance, PTL

\* For every deployment and secret: the migration prepares the database for the server.
THEOREM MigrationServes == Spec => []MigratedMeansServed
<1>1. IInv => MigratedMeansServed
  BY DEF IInv, MigratedInv
<1> QED
  BY <1>1, Invariance, PTL

=============================================================================
