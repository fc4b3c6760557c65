--------------------------- MODULE PlatformProofs ---------------------------
(***************************************************************************)
(* The properties that the run of MCPlatform checks, from the lemmas of    *)
(* PublishingProofs, AccessProofs and DesktopProofs: each part keeps its   *)
(* inductive invariant, whose lemmas hold for the parameters of the part   *)
(* (InstanceConstants).                                                    *)
(***************************************************************************)
EXTENDS MCPlatform, TLAPS

-----------------------------------------------------------------------------
(* The registry and the marketplace *)

RegistryInv ==
    /\ part = "registry" => Registry!RegInv
    /\ part = "market" => Market!MarketInv
    /\ part = "moderation" => Moderation!MarketInv

LEMMA RegistryInit == Init => RegistryInv
<1> SUFFICES ASSUME Init PROVE RegistryInv
  OBVIOUS
<1>1. Registry!RegInit => Registry!RegInv
  BY InstanceConstants, Registry!RegInvInit
<1>2. Market!Init => Market!MarketInv
  BY InstanceConstants, Market!MarketInvInit
<1>3. Moderation!Init => Moderation!MarketInv
  BY InstanceConstants, Moderation!MarketInvInit
<1> QED
  BY <1>1, <1>2, <1>3 DEF Init, RegistryInv

LEMMA RegistryStep == RegistryInv /\ [Next]_vars => RegistryInv'
<1> SUFFICES ASSUME RegistryInv, [Next]_vars PROVE RegistryInv'
  OBVIOUS
<1>1. Registry!RegInv /\ [Registry!RegNext]_(Registry!regVars) => Registry!RegInv'
  BY InstanceConstants, Registry!RegInvStep
<1>2. Market!MarketInv /\ [Market!Next]_(Market!vars) => Market!MarketInv'
  BY InstanceConstants, Market!MarketInvStep
<1>3. Moderation!MarketInv /\ [Moderation!Next]_(Moderation!vars) => Moderation!MarketInv'
  BY InstanceConstants, Moderation!MarketInvStep
<1>4. part' = part
  BY DEF Next, vars
<1>5. part = "registry" => [Registry!RegNext]_(Registry!regVars)
  BY DEF Next, vars, Registry!regVars
<1>6. part = "market" => [Market!Next]_(Market!vars)
  BY DEF Next, vars, Market!vars, Market!marketVars, Market!regVars
<1>7. part = "moderation" => [Moderation!Next]_(Moderation!vars)
  BY DEF Next, vars, Moderation!vars, Moderation!marketVars,
         Moderation!regVars
<1> QED
  BY <1>1, <1>2, <1>3, <1>4, <1>5, <1>6, <1>7 DEF RegistryInv

\* RegistrySafe: models, shares, patterns, listings, quotes and usage counts are sound and
\* nothing of a deleted account is left, whatever handlers overlap (the model registry and
\* marketplace routes, deleteAccount).
THEOREM RegistryIsSafe == Spec => []RegistrySafe
<1>1. Registry!RegInv =>
         /\ Registry!RegTypeOK /\ Registry!StatusOfContract
         /\ Registry!SharesAdmitted /\ Registry!PatternsConsented
         /\ Registry!NothingOfDeleted
  BY InstanceConstants, Registry!RegMeaning
<1>2. Market!MarketInv =>
         /\ Market!MarketTypeOK /\ Market!ListingReportAdmitted
         /\ Market!PolicyListingsGated /\ Market!OffersHaveRequest
         /\ Market!RollupCountsEvents
  BY InstanceConstants, Market!MarketMeaning
<1>3. Moderation!MarketInv => Moderation!MarketNothingOfDeleted
  BY InstanceConstants, Moderation!MarketMeaning
<1>4. RegistryInv => RegistrySafe
  BY <1>1, <1>2, <1>3 DEF RegistryInv, RegistrySafe
<1> QED
  BY <1>4, RegistryInit, RegistryStep, PTL DEF Spec

-----------------------------------------------------------------------------
(* The release tools *)

ReleaseInv ==
    /\ part = "migrations" => Release!MigInv
    /\ part = "publication" => Release!PubInv
    /\ part = "images" => Images!PubInv
    /\ part = "promotion" => Release!LadInv

LEMMA ReleaseInit == Init => ReleaseInv
<1> SUFFICES ASSUME Init PROVE ReleaseInv
  OBVIOUS
<1>1. Release!MigInit => Release!MigInv
  BY InstanceConstants, Release!MigInvInit
<1>2. Release!PubInit => Release!PubInv
  BY InstanceConstants, Release!PubInvInit
<1>3. Images!PubInit => Images!PubInv
  BY InstanceConstants, Images!PubInvInit
<1>4. Release!LadInit => Release!LadInv
  BY InstanceConstants, Release!LadInvInit
<1> QED
  BY <1>1, <1>2, <1>3, <1>4 DEF Init, ReleaseInv

LEMMA ReleaseStep == ReleaseInv /\ [Next]_vars => ReleaseInv'
<1> SUFFICES ASSUME ReleaseInv, [Next]_vars PROVE ReleaseInv'
  OBVIOUS
<1>1. Release!MigInv /\ [Release!MigNext]_(Release!migVars) => Release!MigInv'
  BY InstanceConstants, Release!MigInvStep
<1>2. Release!PubInv /\ [Release!PubNext]_(Release!pubVars) => Release!PubInv'
  BY InstanceConstants, Release!PubInvStep
<1>3. Images!PubInv /\ [Images!PubNext]_(Images!pubVars) => Images!PubInv'
  BY InstanceConstants, Images!PubInvStep
<1>4. Release!LadInv /\ [Release!LadNext]_(Release!ladVars) => Release!LadInv'
  BY InstanceConstants, Release!LadInvStep
<1>5. part' = part
  BY DEF Next, vars
<1>6. part = "migrations" => [Release!MigNext]_(Release!migVars)
  BY DEF Next, vars, Release!migVars
<1>7. part = "publication" => [Release!PubNext]_(Release!pubVars)
  BY DEF Next, vars, Release!pubVars
<1>8. part = "images" => [Images!PubNext]_(Images!pubVars)
  BY DEF Next, vars, Images!pubVars
<1>9. part = "promotion" => [Release!LadNext]_(Release!ladVars)
  BY DEF Next, vars, Release!ladVars
<1> QED
  BY <1>1, <1>2, <1>3, <1>4, <1>5, <1>6, <1>7, <1>8, <1>9 DEF ReleaseInv

\* ReleaseSafe: the migration history is what ran and is of one checkout, a publication that
\* verifies is of one release, and no environment runs what its predecessor has not
\* (applyMigrations, validatePublicationEvidenceFiles, validatePromotion).
THEOREM ReleaseIsSafe == Spec => []ReleaseSafe
<1>1. Release!MigInv => Release!MigTypeOK /\ Release!MigrationsSafe
  BY InstanceConstants, Release!MigMeaning
<1>2. Release!PubInv => Release!PubTypeOK /\ Release!PublicationSafe
  BY InstanceConstants, Release!PubMeaning
<1>3. Images!PubInv => Images!PubTypeOK /\ Images!PublicationSafe
  BY InstanceConstants, Images!PubMeaning
<1>4. Release!LadInv => Release!LadTypeOK /\ Release!LadderSafe
  BY InstanceConstants, Release!LadMeaning
<1>5. ReleaseInv => ReleaseSafe
  BY <1>1, <1>2, <1>3, <1>4 DEF ReleaseInv, ReleaseSafe
<1> QED
  BY <1>5, ReleaseInit, ReleaseStep, PTL DEF Spec

-----------------------------------------------------------------------------
(* The HTTP server and the rows of the owners *)

ServerInv ==
    /\ part = "access" => First!HttpInv
    /\ part = "limiter" => Second!HttpInv
    /\ part = "eviction" => Third!HttpInv

RowsInv ==
    /\ part = "owners" => First!OwnInv
    /\ part = "classes" => Second!OwnInv
    /\ part = "tables" => Third!OwnInv

LEMMA AccessInit == Init => ServerInv /\ RowsInv
<1> SUFFICES ASSUME Init PROVE ServerInv /\ RowsInv
  OBVIOUS
<1>1. First!HttpInit => First!HttpInv
  BY InstanceConstants, First!HttpInvInit
<1>2. Second!HttpInit => Second!HttpInv
  BY InstanceConstants, Second!HttpInvInit
<1>3. Third!HttpInit => Third!HttpInv
  BY InstanceConstants, Third!HttpInvInit
<1>4. First!OwnInit => First!OwnInv
  BY InstanceConstants, First!OwnInvInit
<1>5. Second!OwnInit => Second!OwnInv
  BY InstanceConstants, Second!OwnInvInit
<1>6. Third!OwnInit => Third!OwnInv
  BY InstanceConstants, Third!OwnInvInit
<1> QED
  BY <1>1, <1>2, <1>3, <1>4, <1>5, <1>6 DEF Init, ServerInv, RowsInv

LEMMA ServerStep == ServerInv /\ [Next]_vars => ServerInv'
<1> SUFFICES ASSUME ServerInv, [Next]_vars PROVE ServerInv'
  OBVIOUS
<1>1. First!HttpInv /\ [First!HttpNext]_(First!httpVars) => First!HttpInv'
  BY InstanceConstants, First!HttpInvStep
<1>2. Second!HttpInv /\ [Second!HttpNext]_(Second!httpVars) => Second!HttpInv'
  BY InstanceConstants, Second!HttpInvStep
<1>3. Third!HttpInv /\ [Third!HttpNext]_(Third!httpVars) => Third!HttpInv'
  BY InstanceConstants, Third!HttpInvStep
<1>4. part' = part
  BY DEF Next, vars
<1>5. part = "access" => [First!HttpNext]_(First!httpVars)
  BY DEF Next, vars, First!httpVars
<1>6. part = "limiter" => [Second!HttpNext]_(Second!httpVars)
  BY DEF Next, vars, Second!httpVars
<1>7. part = "eviction" => [Third!HttpNext]_(Third!httpVars)
  BY DEF Next, vars, Third!httpVars
<1> QED
  BY <1>1, <1>2, <1>3, <1>4, <1>5, <1>6, <1>7 DEF ServerInv

\* A step of the run is, for the part it is of, a step of the owners' rows.
LEMMA RowsSteps ==
    ASSUME [Next]_vars
    PROVE  /\ part' = part
           /\ part = "owners" => [First!OwnNext]_(First!ownVars)
           /\ part = "classes" => [Second!OwnNext]_(Second!ownVars)
           /\ part = "tables" => [Third!OwnNext]_(Third!ownVars)
<1>1. part' = part
  BY DEF Next, vars
<1>2. part = "owners" => [First!OwnNext]_(First!ownVars)
  BY DEF Next, vars, First!ownVars
<1>3. part = "classes" => [Second!OwnNext]_(Second!ownVars)
  BY DEF Next, vars, Second!ownVars
<1>4. part = "tables" => [Third!OwnNext]_(Third!ownVars)
  BY DEF Next, vars, Third!ownVars
<1> QED
  BY <1>1, <1>2, <1>3, <1>4

LEMMA RowsStep == RowsInv /\ [Next]_vars => RowsInv'
<1> SUFFICES ASSUME RowsInv, [Next]_vars PROVE RowsInv'
  OBVIOUS
<1>1. First!OwnInv /\ [First!OwnNext]_(First!ownVars) => First!OwnInv'
  BY InstanceConstants, First!OwnInvStep
<1>2. Second!OwnInv /\ [Second!OwnNext]_(Second!ownVars) => Second!OwnInv'
  BY InstanceConstants, Second!OwnInvStep
<1>3. Third!OwnInv /\ [Third!OwnNext]_(Third!ownVars) => Third!OwnInv'
  BY InstanceConstants, Third!OwnInvStep
<1> QED
  BY <1>1, <1>2, <1>3, RowsSteps DEF RowsInv

\* AccessSafe: nobody acts in production under a name no session gave, every response is
\* observed, clients are limited in every window and never below their limit, and exports
\* and deletions are of one whole account (server.ts, rateLimit.ts, accountData.ts).
THEOREM AccessIsSafe == Spec => []AccessSafe
<1>1. First!HttpInv => /\ First!HttpTypeOK /\ First!ProductionIdentity
                       /\ First!EveryResponseObserved
  BY InstanceConstants, First!HttpMeaning
<1>2. Second!HttpInv => Second!AnyWindowBounded /\ Second!RefusedOnlyOverLimit
  BY InstanceConstants, Second!HttpMeaning
<1>3. Third!HttpInv => Third!RefusedOnlyOverLimit /\ Third!StoreBounded
  BY InstanceConstants, Third!HttpMeaning
<1>4. First!OwnInv => First!OwnTypeOK /\ First!AccessSafe
  BY InstanceConstants, First!OwnMeaning
<1>5. Second!OwnInv => Second!OwnTypeOK /\ Second!AccessSafe
  BY InstanceConstants, Second!OwnMeaning
<1>6. Third!OwnInv => Third!OwnTypeOK /\ Third!AccessSafe
  BY InstanceConstants, Third!OwnMeaning
<1>7. ServerInv /\ RowsInv => AccessSafe
  BY <1>1, <1>2, <1>3, <1>4, <1>5, <1>6 DEF ServerInv, RowsInv, AccessSafe
<1> QED
  BY <1>7, AccessInit, ServerStep, RowsStep, PTL DEF Spec

\* AnswersEntitled: no answer shows a row to a caller who is not entitled to it, whatever is
\* changed between the check of the caller and the queries (the read routes of server.ts).
THEOREM AnswersAreEntitled == Spec => AnswersEntitled
<1>1. ASSUME RowsInv, [Next]_vars
      PROVE  [ /\ part = "owners" => First!AnswersEntitled
               /\ part = "classes" => Second!AnswersEntitled
               /\ part = "tables" => Third!AnswersEntitled ]_vars
  <2>1. First!OwnInv /\ [First!OwnNext]_(First!ownVars) => First!AnswersEntitled
    BY InstanceConstants, First!OwnStepEntitled
  <2>2. Second!OwnInv /\ [Second!OwnNext]_(Second!ownVars) => Second!AnswersEntitled
    BY InstanceConstants, Second!OwnStepEntitled
  <2>3. Third!OwnInv /\ [Third!OwnNext]_(Third!ownVars) => Third!AnswersEntitled
    BY InstanceConstants, Third!OwnStepEntitled
  <2> QED
    BY <1>1, <2>1, <2>2, <2>3, RowsSteps DEF RowsInv
<1> QED
  BY <1>1, AccessInit, RowsStep, PTL DEF Spec, AnswersEntitled

-----------------------------------------------------------------------------
(* The custody store *)

CustodyInv ==
    /\ part = "custody" => First!CusInv
    /\ part = "records" => Second!CusInv

LEMMA CustodyInit == Init => CustodyInv
<1> SUFFICES ASSUME Init PROVE CustodyInv
  OBVIOUS
<1>1. First!CusInit => First!CusInv
  BY InstanceConstants, First!CusInvInit
<1>2. Second!CusInit => Second!CusInv
  BY InstanceConstants, Second!CusInvInit
<1> QED
  BY <1>1, <1>2 DEF Init, CustodyInv

LEMMA CustodyStep == CustodyInv /\ [Next]_vars => CustodyInv'
<1> SUFFICES ASSUME CustodyInv, [Next]_vars PROVE CustodyInv'
  OBVIOUS
<1>1. First!CusInv /\ [First!CusNext]_(First!cusVars) => First!CusInv'
  BY InstanceConstants, First!CusInvStep
<1>2. Second!CusInv /\ [Second!CusNext]_(Second!cusVars) => Second!CusInv'
  BY InstanceConstants, Second!CusInvStep
<1>3. part' = part
  BY DEF Next, vars
<1>4. part = "custody" => [First!CusNext]_(First!cusVars)
  BY DEF Next, vars, First!cusVars
<1>5. part = "records" => [Second!CusNext]_(Second!cusVars)
  BY DEF Next, vars, Second!cusVars
<1> QED
  BY <1>1, <1>2, <1>3, <1>4, <1>5 DEF CustodyInv

\* CustodySafe: nothing given into custody is lost in silence, receipts are true, a deleted
\* batch stays deleted and an audit finds what a crash left, whatever is killed or fails
\* (observability-custody.mjs).
THEOREM CustodyIsSafe == Spec => []CustodySafe
<1>1. First!CusInv => /\ First!CusTypeOK /\ First!NothingLostInSilence
                      /\ First!ReceiptTruthful /\ First!LiveRecordsBounded
                      /\ First!AuditFindsEverything /\ First!DeletedStaysClosed
                      /\ First!LockHasOwner
  BY InstanceConstants, First!CusMeaning
<1>2. Second!CusInv => /\ Second!CusTypeOK /\ Second!NothingLostInSilence
                       /\ Second!ReceiptTruthful /\ Second!LiveRecordsBounded
                       /\ Second!AuditFindsEverything /\ Second!DeletedStaysClosed
                       /\ Second!LockHasOwner
  BY InstanceConstants, Second!CusMeaning
<1>3. CustodyInv => CustodySafe
  BY <1>1, <1>2 DEF CustodyInv, CustodySafe
<1> QED
  BY <1>3, CustodyInit, CustodyStep, PTL DEF Spec

-----------------------------------------------------------------------------
(* The desktop panels and their shell *)

RecorderInv ==
    /\ part = "capture" => Desk!CaptureInv
    /\ part = "swaps" => Bench!CaptureInv

PanelsInv ==
    /\ part = "import" => Desk!ImportInv
    /\ part = "moves" => Bench!ImportInv
    /\ part = "ladder" => Desk!RehearsalInv

LEMMA DesktopInit == Init => RecorderInv /\ PanelsInv
<1> SUFFICES ASSUME Init PROVE RecorderInv /\ PanelsInv
  OBVIOUS
<1>1. Desk!CapInit => Desk!CaptureInv
  BY InstanceConstants, Desk!CaptureInit
<1>2. Bench!CapInit => Bench!CaptureInv
  BY InstanceConstants, Bench!CaptureInit
<1>3. Desk!ImpInit => Desk!ImportInv
  BY InstanceConstants, Desk!ImportInit
<1>4. Bench!ImpInit => Bench!ImportInv
  BY InstanceConstants, Bench!ImportInit
<1>5. Desk!RehInit => Desk!RehearsalInv
  BY InstanceConstants, Desk!RehearsalInit
<1> QED
  BY <1>1, <1>2, <1>3, <1>4, <1>5 DEF Init, RecorderInv, PanelsInv

\* A step of the run is, for the part it is of, a step of the recorder.
LEMMA RecorderSteps ==
    ASSUME [Next]_vars
    PROVE  /\ part' = part
           /\ part = "capture" => [Desk!CapNext]_(Desk!capVars)
           /\ part = "swaps" => [Bench!CapNext]_(Bench!capVars)
<1>1. part' = part
  BY DEF Next, vars
<1>2. part = "capture" => [Desk!CapNext]_(Desk!capVars)
  BY DEF Next, vars, Desk!capVars, Desk!native, Desk!world
<1>3. part = "swaps" => [Bench!CapNext]_(Bench!capVars)
  BY DEF Next, vars, Bench!capVars, Bench!native, Bench!world
<1> QED
  BY <1>1, <1>2, <1>3

LEMMA RecorderStep == RecorderInv /\ [Next]_vars => RecorderInv'
<1> SUFFICES ASSUME RecorderInv, [Next]_vars PROVE RecorderInv'
  OBVIOUS
<1>1. Desk!CaptureInv /\ [Desk!CapNext]_(Desk!capVars) => Desk!CaptureInv'
  BY InstanceConstants, Desk!CaptureNext
<1>2. Bench!CaptureInv /\ [Bench!CapNext]_(Bench!capVars) => Bench!CaptureInv'
  BY InstanceConstants, Bench!CaptureNext
<1> QED
  BY <1>1, <1>2, RecorderSteps DEF RecorderInv

LEMMA PanelsStep == PanelsInv /\ [Next]_vars => PanelsInv'
<1> SUFFICES ASSUME PanelsInv, [Next]_vars PROVE PanelsInv'
  OBVIOUS
<1>1. Desk!ImportInv /\ [Desk!ImpNext]_(Desk!impVars) => Desk!ImportInv'
  BY InstanceConstants, Desk!ImportNext
<1>2. Bench!ImportInv /\ [Bench!ImpNext]_(Bench!impVars) => Bench!ImportInv'
  BY InstanceConstants, Bench!ImportNext
<1>3. Desk!RehearsalInv /\ [Desk!RehNext]_(Desk!rehVars) => Desk!RehearsalInv'
  BY InstanceConstants, Desk!RehearsalNext
<1>4. part' = part
  BY DEF Next, vars
<1>5. part = "import" => [Desk!ImpNext]_(Desk!impVars)
  BY DEF Next, vars, Desk!impVars, Desk!gateway, Desk!panel
<1>6. part = "moves" => [Bench!ImpNext]_(Bench!impVars)
  BY DEF Next, vars, Bench!impVars, Bench!gateway, Bench!panel
<1>7. part = "ladder" => [Desk!RehNext]_(Desk!rehVars)
  BY DEF Next, vars, Desk!rehVars
<1> QED
  BY <1>1, <1>2, <1>3, <1>4, <1>5, <1>6, <1>7 DEF PanelsInv

\* DesktopSafe: the recorder panel, the import panel and the deployment ladder show what the
\* shell and the gateway hold, and no stage is passed unconfirmed, through reloads, swapped
\* devices, replaced directories and late answers (desktopRecorder.ts, App.tsx, the shell).
THEOREM DesktopIsSafe == Spec => []DesktopSafe
<1>1. Desk!CaptureInv => /\ Desk!CapTypeOK /\ Desk!PanelInStep
                         /\ Desk!ProofContinuity /\ Desk!OfferedArchiveIsStopped
  BY InstanceConstants, Desk!CaptureImplies DEF Desk!CaptureSafe
<1>2. Bench!CaptureInv => /\ Bench!CapTypeOK /\ Bench!PanelInStep
                          /\ Bench!ProofContinuity /\ Bench!OfferedArchiveIsStopped
  BY InstanceConstants, Bench!CaptureImplies DEF Bench!CaptureSafe
<1>3. Desk!ImportInv => /\ Desk!ImpTypeOK /\ Desk!RowsWereVerified
                        /\ Desk!OnlyPlannedUploaded /\ Desk!DisplayBacked
  BY InstanceConstants, Desk!ImportImplies DEF Desk!ImportSafe
<1>4. Bench!ImportInv => /\ Bench!ImpTypeOK /\ Bench!RowsWereVerified
                         /\ Bench!OnlyPlannedUploaded /\ Bench!DisplayBacked
  BY InstanceConstants, Bench!ImportImplies DEF Bench!ImportSafe
<1>5. Desk!RehearsalInv => /\ Desk!RehTypeOK /\ Desk!EveryStageConfirmed
                           /\ Desk!EvidenceBound /\ Desk!LadderInStep
  BY InstanceConstants, Desk!RehearsalImplies DEF Desk!RehearsalSafe
<1>6. RecorderInv /\ PanelsInv => DesktopSafe
  BY <1>1, <1>2, <1>3, <1>4, <1>5 DEF RecorderInv, PanelsInv, DesktopSafe
<1> QED
  BY <1>6, DesktopInit, RecorderStep, PanelsStep, PTL DEF Spec

\* CaptureSteps: a capture begun under custody is never ended by a plain stop and a complete
\* archive is neither changed nor deleted (the desktop recorder's commands).
THEOREM CaptureStepsKept == Spec => CaptureSteps
<1>1. ASSUME RecorderInv, [Next]_vars
      PROVE  [ /\ part = "capture" => Desk!CustodyNotBypassed /\ Desk!CompletedArchiveKept
               /\ part = "swaps" => Bench!CustodyNotBypassed /\ Bench!CompletedArchiveKept ]_vars
  <2>1. Desk!CaptureInv /\ [Desk!CapNext]_(Desk!capVars) =>
           Desk!CustodyNotBypassed /\ Desk!CompletedArchiveKept
    BY InstanceConstants, Desk!CaptureStep DEF Desk!CaptureKept
  <2>2. Bench!CaptureInv /\ [Bench!CapNext]_(Bench!capVars) =>
           Bench!CustodyNotBypassed /\ Bench!CompletedArchiveKept
    BY InstanceConstants, Bench!CaptureStep DEF Bench!CaptureKept
  <2> QED
    BY <1>1, <2>1, <2>2, RecorderSteps DEF RecorderInv
<1> QED
  BY <1>1, DesktopInit, RecorderStep, PTL DEF Spec, CaptureSteps

-----------------------------------------------------------------------------
(* The parts of the studio page *)

StudioInv ==
    /\ part = "playback" => Desk!PlayInv
    /\ part = "faults" => Bench!PlayInv
    /\ part = "stage" => Desk!StageInv
    /\ part = "panels" => Desk!PanelsInv
    /\ part = "replay" => Desk!ReplayInv

LEMMA StudioInit == Init => StudioInv
<1> SUFFICES ASSUME Init PROVE StudioInv
  OBVIOUS
<1>1. Desk!PlayInit => Desk!PlayInv
  BY InstanceConstants, Desk!PlayInvInit
<1>2. Bench!PlayInit => Bench!PlayInv
  BY InstanceConstants, Bench!PlayInvInit
<1>3. Desk!StageInit => Desk!StageInv
  BY InstanceConstants, Desk!StageInvInit
<1>4. Desk!PanelsInit => Desk!PanelsInv
  BY InstanceConstants, Desk!PanelsInvInit
<1>5. Desk!ReplayInit => Desk!ReplayInv
  BY InstanceConstants, Desk!ReplayInvInit
<1> QED
  BY <1>1, <1>2, <1>3, <1>4, <1>5 DEF Init, StudioInv

\* A step of the run is, for the part it is of, a step of that part of the page.
LEMMA StudioSteps ==
    ASSUME [Next]_vars
    PROVE  /\ part' = part
           /\ part = "playback" => [Desk!PlayNext]_(Desk!playVars)
           /\ part = "faults" => [Bench!PlayNext]_(Bench!playVars)
           /\ part = "stage" => [Desk!StageNext]_(Desk!stageVars)
           /\ part = "panels" => [Desk!PanelsNext]_(Desk!panelVars)
           /\ part = "replay" => [Desk!ReplayNext]_(Desk!replayVars)
<1>1. part' = part
  BY DEF Next, vars
<1>2. part = "playback" => [Desk!PlayNext]_(Desk!playVars)
  BY DEF Next, vars, Desk!playVars
<1>3. part = "faults" => [Bench!PlayNext]_(Bench!playVars)
  BY DEF Next, vars, Bench!playVars
<1>4. part = "stage" => [Desk!StageNext]_(Desk!stageVars)
  BY DEF Next, vars, Desk!stageVars
<1>5. part = "panels" => [Desk!PanelsNext]_(Desk!panelVars)
  BY DEF Next, vars, Desk!panelVars
<1>6. part = "replay" => [Desk!ReplayNext]_(Desk!replayVars)
  BY DEF Next, vars, Desk!replayVars
<1> QED
  BY <1>1, <1>2, <1>3, <1>4, <1>5, <1>6

LEMMA StudioStep == StudioInv /\ [Next]_vars => StudioInv'
<1> SUFFICES ASSUME StudioInv, [Next]_vars PROVE StudioInv'
  OBVIOUS
<1>1. Desk!PlayInv /\ [Desk!PlayNext]_(Desk!playVars) => Desk!PlayInv'
  BY InstanceConstants, Desk!PlayInvStep
<1>2. Bench!PlayInv /\ [Bench!PlayNext]_(Bench!playVars) => Bench!PlayInv'
  BY InstanceConstants, Bench!PlayInvStep
<1>3. Desk!StageInv /\ [Desk!StageNext]_(Desk!stageVars) => Desk!StageInv'
  BY InstanceConstants, Desk!StageInvStep
<1>4. Desk!PanelsInv /\ [Desk!PanelsNext]_(Desk!panelVars) => Desk!PanelsInv'
  BY InstanceConstants, Desk!PanelsInvStep
<1>5. Desk!ReplayInv /\ [Desk!ReplayNext]_(Desk!replayVars) => Desk!ReplayInv'
  BY InstanceConstants, Desk!ReplayInvStep
<1> QED
  BY <1>1, <1>2, <1>3, <1>4, <1>5, StudioSteps DEF StudioInv

\* StudioSafe: playback accounts for its time, runtimes and sessions, the stage shows one
\* document, a busy flag has a handler behind it and a seek lands on the point of its time,
\* however plays, answers, loads and refreshes overlap (wasm.ts, policyRuntime.ts, App.tsx,
\* ghostReplay.ts).
THEOREM StudioIsSafe == Spec => []StudioSafe
<1>1. Desk!PlayInv => Desk!PlayTypeOK /\ Desk!PlaybackSafe
  BY InstanceConstants, Desk!PlayInvMeaning
<1>2. Bench!PlayInv => Bench!PlayTypeOK /\ Bench!PlaybackSafe
  BY InstanceConstants, Bench!PlayInvMeaning
<1>3. Desk!StageInv => Desk!StageSafe
  BY Desk!StageInvMeaning
<1>4. Desk!PanelsInv => Desk!BusyMeansWork
  BY Desk!PanelsInvMeaning
<1>5. Desk!ReplayInv => Desk!ReplayTypeOK /\ Desk!ReplaySafe
  BY InstanceConstants, Desk!ReplayInvMeaning
<1>6. StudioInv => StudioSafe
  BY <1>1, <1>2, <1>3, <1>4, <1>5 DEF StudioInv, StudioSafe
<1> QED
  BY <1>6, StudioInit, StudioStep, PTL DEF Spec
=============================================================================
