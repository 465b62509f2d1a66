--------------------------- MODULE StartupProofs ----------------------------
(***************************************************************************)
(* Proofs about what a start of the services runs: the hand-over of the    *)
(* legacy port to the gateway, for any ports, number of routes and number  *)
(* of failures, the cutover of the stored credentials, for any rows, keys, *)
(* callers and failures, and the load of the portal's verifier, for any    *)
(* number of edits during the load.  The three are independent.            *)
(***************************************************************************)
EXTENDS GatewayStartup, CredentialCutover, VerifierLoad, TLAPS

(***************************************************************************)
(* A start keeps the legacy port until the gateway has taken it and        *)
(* announces itself only when the migration is over.                       *)
(***************************************************************************)
(* The calls that each step of main makes. *)
CallPlace ==
  /\ gwCall.kind = "ping" => bootStep = "connect"
  /\ gwCall.kind = "route" => bootStep = "routes" /\ routed < RouteCount
  /\ gwCall.kind \in {"change", "get"} => bootStep = "migrate"

(* Before the port is cleared, memory holds what the file holds; from then *)
(* on the gateway has taken the port; every route was registered before.   *)
MigrationOrder ==
  /\ owed => gwPort # LegacyPort
  /\ bootStep \in {"connect", "roots", "routes", "bus", "migrate", "stage"} => httpPort = confFile
  /\ bootStep \in {"stage", "publish", "sync"} => ~owed
  /\ bootStep \in {"publish", "sync"} => httpPort = NoPort
  /\ bootStep = "sync" => confFile = NoPort
  /\ bootStep = "routes" => gwCall.kind = "route"
  /\ bootStep = "connect" => routed = 0
  /\ bootStep = "roots" => routed = 0
  /\ bootStep \in {"bus", "migrate", "stage", "publish", "sync"} => routed = RouteCount
  /\ bootStep \in {"down", "config"} => routed = 0
  /\ bootStep \in {"down", "config", "connect", "roots", "routes", "bus"} => busTried < BusTries

StartupInv == StartupTypeOK /\ CallPlace /\ MigrationOrder /\ StartupSafe

(* What a new call is, and what the bound on failures admits. *)
LEMMA CallStarted ==
  ASSUME NEW kind \in {"ping", "route", "change", "get"}, CallStarts(kind)
  PROVE  gwCall' \in GwCalls /\ gwCall'.kind = kind
<1>1. gwCall' = [kind |-> kind, step |-> "address", address |-> 0, token |-> 0]
  BY Zenon DEF CallStarts, NoGwCall
<1>. QED BY <1>1, CountsNatural DEF GwCalls

LEMMA UpsetCounted ==
  ASSUME StartupTypeOK, Upset
  PROVE  upsets' \in 0 .. MaxUpsets
  BY CountsNatural DEF StartupTypeOK, Upset

(* What is left after a panic satisfies the invariant: the process state is *)
(* gone and the file is as it was.                                          *)
LEMMA PanicKeeps ==
  ASSUME StartupInv, Panics, upsets' \in 0 .. MaxUpsets
  PROVE  StartupInv'
<1>. USE PortsDiffer, CountsNatural DEF StartupInv
<1>1. gwCall' \in GwCalls
  BY DEF Panics, Gone, StartupTypeOK, GwCalls, NoGwCall
<1>2. StartupTypeOK'
  BY <1>1 DEF Panics, Gone, StartupTypeOK, CallPlace, Boots
<1>3. CallPlace'
  BY Zenon DEF Panics, Gone, CallPlace, MigrationOrder, StartupTypeOK, GwCalls, NoGwCall
<1>4. MigrationOrder'
  BY DEF Panics, Gone, CallPlace, MigrationOrder, StartupTypeOK, GwCalls, NoGwCall, StartupSafe,
     PortRemembered
<1>5. StartupSafe'
  BY Zenon DEF Panics, Gone, StartupTypeOK, CallPlace, MigrationOrder, StartupSafe, PortRemembered,
     ReadyMeansMigrated
<1>. QED BY <1>2, <1>3, <1>4, <1>5, Zenon

(* A call that failed is either a change, which is followed by a question   *)
(* for the port, or the reason for a panic.                                 *)
LEMMA FailedCallKeeps ==
  ASSUME StartupInv, CallFails, upsets' \in 0 .. MaxUpsets
  PROVE  StartupInv'
<1>1. CASE gwCall.kind # "change"
  BY <1>1, PanicKeeps, Zenon DEF CallFails
<1>2. CASE gwCall.kind = "change"
  <2>. USE PortsDiffer, CountsNatural, <1>2 DEF StartupInv
  <2>1. gwCall' \in GwCalls
    BY CallStarted, Zenon DEF CallFails, confVars, StartupTypeOK, GwCalls, NoGwCall
  <2>2. StartupTypeOK'
    BY <2>1, CallStarted, Zenon DEF CallFails, confVars, StartupTypeOK, CallPlace, Boots
  <2>3. CallPlace'
    BY CallStarted, Zenon DEF CallFails, confVars, CallPlace, MigrationOrder, StartupTypeOK, GwCalls, NoGwCall
  <2>4. MigrationOrder'
    BY CallStarted DEF CallFails, confVars, CallPlace, MigrationOrder, StartupTypeOK, GwCalls,
       NoGwCall, StartupSafe, PortRemembered
  <2>5. StartupSafe'
    BY CallStarted DEF CallFails, confVars, StartupTypeOK, CallPlace, MigrationOrder, StartupSafe,
       PortRemembered, ReadyMeansMigrated
  <2>. QED BY <2>2, <2>3, <2>4, <2>5, Zenon
<1>. QED BY <1>1, <1>2, Zenon

(* The initial states satisfy the invariant. *)
LEMMA StartupInvInit == StartupInit => StartupInv
<1>. SUFFICES ASSUME StartupInit PROVE StartupInv
  BY Zenon
<1>. USE PortsDiffer, CountsNatural DEF StartupInit
<1>1. gwCall \in GwCalls
  BY DEF GwCalls, NoGwCall
<1>2. owed \in BOOLEAN /\ gwUp \in BOOLEAN /\ late \in BOOLEAN
  BY Zenon
<1>a. routed \in 0 .. RouteCount /\ busTried \in 0 .. BusTries /\ bootStep \in Boots
  BY DEF Boots
<1>b. gwStarts \in 0 .. MaxUpsets + 1 /\ upsets \in 0 .. MaxUpsets
  OBVIOUS
<1>3. StartupTypeOK
  BY <1>1, <1>2, <1>a, <1>b, Zenon DEF StartupTypeOK
<1>c. owed => gwPort # LegacyPort
  BY Zenon
<1>4. CallPlace /\ MigrationOrder
  BY <1>c DEF CallPlace, MigrationOrder, NoGwCall
<1>5. StartupSafe
  BY Zenon DEF StartupSafe, PortRemembered, ReadyMeansMigrated
<1>. QED BY <1>3, <1>4, <1>5, Zenon DEF StartupInv

(* Every step of the service, of the gateway and of the machine keeps it.   *)
LEMMA StartupInvStep == StartupInv /\ [StartupNext]_startupVars => StartupInv'
<1>. SUFFICES ASSUME StartupInv, [StartupNext]_startupVars PROVE StartupInv'
  BY Zenon
<1>. USE PortsDiffer, CountsNatural DEF StartupInv
<1>1. CASE AdmitCredential
  <2>1. gwCall' \in GwCalls
    BY <1>1, Zenon DEF AdmitCredential, gatewayVars, confVars, StartupTypeOK, GwCalls, NoGwCall
  <2>2. StartupTypeOK'
    BY <2>1, <1>1, Zenon DEF AdmitCredential, gatewayVars, confVars, StartupTypeOK, CallPlace, Boots
  <2>3. CallPlace'
    BY <1>1, Zenon DEF AdmitCredential, gatewayVars, confVars, CallPlace, MigrationOrder,
       StartupTypeOK, GwCalls, NoGwCall
  <2>4. MigrationOrder'
    BY <1>1, Zenon DEF AdmitCredential, gatewayVars, confVars, CallPlace, MigrationOrder,
       StartupTypeOK, GwCalls, NoGwCall, StartupSafe, PortRemembered
  <2>5. StartupSafe'
    BY <1>1, Zenon DEF AdmitCredential, gatewayVars, confVars, StartupTypeOK, CallPlace,
       MigrationOrder, StartupSafe, PortRemembered, ReadyMeansMigrated
  <2>. QED BY <2>2, <2>3, <2>4, <2>5, Zenon
<1>2. CASE InitSetup
  <2>1. gwCall' \in GwCalls
    BY <1>2, CallStarted, Zenon DEF InitSetup, gatewayVars, StartupTypeOK, GwCalls, NoGwCall
  <2>2. StartupTypeOK'
    BY <2>1, <1>2, CallStarted, Zenon DEF InitSetup, gatewayVars, StartupTypeOK, CallPlace, Boots
  <2>3. CallPlace'
    BY <1>2, CallStarted, Zenon DEF InitSetup, gatewayVars, CallPlace, MigrationOrder, StartupTypeOK,
       GwCalls, NoGwCall
  <2>4. MigrationOrder'
    BY <1>2, CallStarted, Zenon DEF InitSetup, gatewayVars, CallPlace, MigrationOrder, StartupTypeOK,
       GwCalls, NoGwCall, StartupSafe, PortRemembered
  <2>5. StartupSafe'
    BY <1>2, CallStarted, Zenon DEF InitSetup, gatewayVars, StartupTypeOK, CallPlace, MigrationOrder,
       StartupSafe, PortRemembered, ReadyMeansMigrated
  <2>. QED BY <2>2, <2>3, <2>4, <2>5, Zenon
<1>3. CASE OpenRoots
  <2>1. gwCall' \in GwCalls
    BY <1>3, CallStarted, Zenon DEF OpenRoots, gatewayVars, confVars, StartupTypeOK, GwCalls, NoGwCall
  <2>2. StartupTypeOK'
    BY <2>1, <1>3, CallStarted, Zenon DEF OpenRoots, gatewayVars, confVars, StartupTypeOK, CallPlace, Boots
  <2>3. CallPlace'
    BY <1>3, CallStarted DEF OpenRoots, gatewayVars, confVars, CallPlace, MigrationOrder,
       StartupTypeOK, GwCalls, NoGwCall
  <2>4. MigrationOrder'
    BY <1>3, CallStarted, Zenon DEF OpenRoots, gatewayVars, confVars, CallPlace, MigrationOrder,
       StartupTypeOK, GwCalls, NoGwCall, StartupSafe, PortRemembered
  <2>5. StartupSafe'
    BY <1>3, CallStarted, Zenon DEF OpenRoots, gatewayVars, confVars, StartupTypeOK, CallPlace,
       MigrationOrder, StartupSafe, PortRemembered, ReadyMeansMigrated
  <2>. QED BY <2>2, <2>3, <2>4, <2>5, Zenon
<1>4. CASE WaitForAddress
  <2>1. gwCall' \in GwCalls
    BY <1>4, Zenon DEF WaitForAddress, gatewayVars, confVars, StartupTypeOK, GwCalls, NoGwCall
  <2>2. StartupTypeOK'
    BY <2>1, <1>4 DEF WaitForAddress, gatewayVars, confVars, StartupTypeOK, CallPlace, Boots
  <2>3. CallPlace'
    BY <1>4, Zenon DEF WaitForAddress, gatewayVars, confVars, CallPlace, MigrationOrder, StartupTypeOK,
       GwCalls, NoGwCall
  <2>4. MigrationOrder'
    BY <1>4, Zenon DEF WaitForAddress, gatewayVars, confVars, CallPlace, MigrationOrder, StartupTypeOK,
       GwCalls, NoGwCall, StartupSafe, PortRemembered
  <2>5. StartupSafe'
    BY <1>4, Zenon DEF WaitForAddress, gatewayVars, confVars, StartupTypeOK, CallPlace, MigrationOrder,
       StartupSafe, PortRemembered, ReadyMeansMigrated
  <2>. QED BY <2>2, <2>3, <2>4, <2>5, Zenon
<1>5. CASE ReadToken
  <2>1. gwCall' \in GwCalls
    BY <1>5, Zenon DEF ReadToken, gatewayVars, confVars, StartupTypeOK, GwCalls, NoGwCall
  <2>2. StartupTypeOK'
    BY <2>1, <1>5 DEF ReadToken, gatewayVars, confVars, StartupTypeOK, CallPlace, Boots
  <2>3. CallPlace'
    BY <1>5, Zenon DEF ReadToken, gatewayVars, confVars, CallPlace, MigrationOrder, StartupTypeOK,
       GwCalls, NoGwCall
  <2>4. MigrationOrder'
    BY <1>5, Zenon DEF ReadToken, gatewayVars, confVars, CallPlace, MigrationOrder, StartupTypeOK,
       GwCalls, NoGwCall, StartupSafe, PortRemembered
  <2>5. StartupSafe'
    BY <1>5, Zenon DEF ReadToken, gatewayVars, confVars, StartupTypeOK, CallPlace, MigrationOrder,
       StartupSafe, PortRemembered, ReadyMeansMigrated
  <2>. QED BY <2>2, <2>3, <2>4, <2>5, Zenon
<1>6. CASE SendRefused
  BY <1>6, FailedCallKeeps, Zenon DEF SendRefused, StartupTypeOK
<1>7. CASE SendCall
  <2>1. gwCall' \in GwCalls
    BY <1>7, Zenon DEF SendCall, gatewayVars, confVars, StartupTypeOK, GwCalls, NoGwCall
  <2>2. StartupTypeOK'
    BY <2>1, <1>7, Zenon DEF SendCall, gatewayVars, confVars, StartupTypeOK, CallPlace, Boots
  <2>3. CallPlace'
    BY <1>7, Zenon DEF SendCall, gatewayVars, confVars, CallPlace, MigrationOrder, StartupTypeOK,
       GwCalls, NoGwCall
  <2>4. MigrationOrder'
    BY <1>7, Zenon DEF SendCall, gatewayVars, confVars, CallPlace, MigrationOrder, StartupTypeOK,
       GwCalls, NoGwCall, StartupSafe, PortRemembered
  <2>5. StartupSafe'
    BY <1>7, Zenon DEF SendCall, gatewayVars, confVars, StartupTypeOK, CallPlace, MigrationOrder,
       StartupSafe, PortRemembered, ReadyMeansMigrated
  <2>. QED BY <2>2, <2>3, <2>4, <2>5, Zenon
<1>8. CASE CallAnswered
  <2>1. CASE gwCall.kind = "ping"
    <3>1. gwCall' \in GwCalls
      BY <1>8, <2>1 DEF CallAnswered, CallSucceeds, confVars, StartupTypeOK, GwCalls, NoGwCall
    <3>2. StartupTypeOK'
      BY <3>1, <1>8, <2>1, Zenon DEF CallAnswered, CallSucceeds, confVars, StartupTypeOK, CallPlace, Boots
    <3>3. CallPlace'
      BY <1>8, <2>1 DEF CallAnswered, CallSucceeds, confVars, CallPlace, MigrationOrder, StartupTypeOK,
         GwCalls, NoGwCall
    <3>4. MigrationOrder'
      BY <1>8, <2>1, Zenon DEF CallAnswered, CallSucceeds, confVars, CallPlace, MigrationOrder,
         StartupTypeOK, GwCalls, NoGwCall, StartupSafe, PortRemembered
    <3>5. StartupSafe'
      BY <1>8, <2>1, Zenon DEF CallAnswered, CallSucceeds, confVars, StartupTypeOK, CallPlace,
         MigrationOrder, StartupSafe, PortRemembered, ReadyMeansMigrated
    <3>. QED BY <3>2, <3>3, <3>4, <3>5, Zenon
  <2>2. CASE gwCall.kind = "route"
    <3>1. gwCall' \in GwCalls
      BY <1>8, <2>2, CallStarted DEF CallAnswered, CallSucceeds, confVars, StartupTypeOK, GwCalls, NoGwCall
    <3>2. StartupTypeOK'
      BY <3>1, <1>8, <2>2, CallStarted DEF CallAnswered, CallSucceeds, confVars, StartupTypeOK,
         CallPlace, Boots
    <3>3. CallPlace'
      BY <1>8, <2>2, CallStarted DEF CallAnswered, CallSucceeds, confVars, CallPlace, MigrationOrder,
         StartupTypeOK, GwCalls, NoGwCall
    <3>4. MigrationOrder'
      BY <1>8, <2>2, CallStarted, Zenon DEF CallAnswered, CallSucceeds, confVars, CallPlace,
         MigrationOrder, StartupTypeOK, GwCalls, NoGwCall, StartupSafe, PortRemembered
    <3>5. StartupSafe'
      BY <1>8, <2>2, CallStarted, Zenon DEF CallAnswered, CallSucceeds, confVars, StartupTypeOK,
         CallPlace, MigrationOrder, StartupSafe, PortRemembered, ReadyMeansMigrated
    <3>. QED BY <3>2, <3>3, <3>4, <3>5, Zenon
  <2>3. CASE gwCall.kind = "change"
    <3>1. gwCall' \in GwCalls
      BY <1>8, <2>3 DEF CallAnswered, CallSucceeds, Confirmed, Serves, confVars, StartupTypeOK,
         GwCalls, NoGwCall
    <3>2. StartupTypeOK'
      BY <3>1, <1>8, <2>3, Zenon DEF CallAnswered, CallSucceeds, Confirmed, Serves, confVars,
         StartupTypeOK, CallPlace, Boots
    <3>3. CallPlace'
      BY <1>8, <2>3 DEF CallAnswered, CallSucceeds, Confirmed, Serves, confVars, CallPlace,
         MigrationOrder, StartupTypeOK, GwCalls, NoGwCall
    <3>4. MigrationOrder'
      BY <1>8, <2>3, Zenon DEF CallAnswered, CallSucceeds, Confirmed, Serves, confVars, CallPlace,
         MigrationOrder, StartupTypeOK, GwCalls, NoGwCall, StartupSafe, PortRemembered
    <3>5. StartupSafe'
      BY <1>8, <2>3, Zenon DEF CallAnswered, CallSucceeds, Confirmed, Serves, confVars, StartupTypeOK,
         CallPlace, MigrationOrder, StartupSafe, PortRemembered, ReadyMeansMigrated
    <3>. QED BY <3>2, <3>3, <3>4, <3>5, Zenon
  <2>. QED BY <1>8, <2>1, <2>2, <2>3, Zenon DEF CallAnswered
<1>9. CASE SamePortRefused
  <2>1. gwCall' \in GwCalls
    BY <1>9, CallStarted, Zenon DEF SamePortRefused, gatewayVars, confVars, StartupTypeOK, GwCalls, NoGwCall
  <2>2. StartupTypeOK'
    BY <2>1, <1>9, CallStarted, Zenon DEF SamePortRefused, gatewayVars, confVars, StartupTypeOK,
       CallPlace, Boots
  <2>3. CallPlace'
    BY <1>9, CallStarted, Zenon DEF SamePortRefused, gatewayVars, confVars, CallPlace, MigrationOrder,
       StartupTypeOK, GwCalls, NoGwCall
  <2>4. MigrationOrder'
    BY <1>9, CallStarted, Zenon DEF SamePortRefused, gatewayVars, confVars, CallPlace, MigrationOrder,
       StartupTypeOK, GwCalls, NoGwCall, StartupSafe, PortRemembered
  <2>5. StartupSafe'
    BY <1>9, CallStarted, Zenon DEF SamePortRefused, gatewayVars, confVars, StartupTypeOK, CallPlace,
       MigrationOrder, StartupSafe, PortRemembered, ReadyMeansMigrated
  <2>. QED BY <2>2, <2>3, <2>4, <2>5, Zenon
<1>10. CASE ConfirmPort
  <2>1. CASE gwPort # LegacyPort
    BY <1>10, <2>1, PanicKeeps, Zenon DEF ConfirmPort, StartupTypeOK
  <2>2. CASE gwPort = LegacyPort
    <3>1. gwCall' \in GwCalls
      BY <1>10, <2>2 DEF ConfirmPort, Confirmed, gatewayVars, confVars, StartupTypeOK, GwCalls, NoGwCall
    <3>2. StartupTypeOK'
      BY <3>1, <1>10, <2>2, Zenon DEF ConfirmPort, Confirmed, gatewayVars, confVars, StartupTypeOK,
         CallPlace, Boots
    <3>3. CallPlace'
      BY <1>10, <2>2 DEF ConfirmPort, Confirmed, gatewayVars, confVars, CallPlace, MigrationOrder,
         StartupTypeOK, GwCalls, NoGwCall
    <3>4. MigrationOrder'
      BY <1>10, <2>2 DEF ConfirmPort, Confirmed, gatewayVars, confVars, CallPlace, MigrationOrder,
         StartupTypeOK, GwCalls, NoGwCall, StartupSafe, PortRemembered
    <3>5. StartupSafe'
      BY <1>10, <2>2 DEF ConfirmPort, Confirmed, gatewayVars, confVars, StartupTypeOK, CallPlace,
         MigrationOrder, StartupSafe, PortRemembered, ReadyMeansMigrated
    <3>. QED BY <3>2, <3>3, <3>4, <3>5, Zenon
  <2>. QED BY <2>1, <2>2, Zenon
<1>11. CASE ConnectionLost
  BY <1>11, FailedCallKeeps, Zenon DEF ConnectionLost, StartupTypeOK
<1>12. CASE RegisterEventTypes
  <2>1. gwCall' \in GwCalls
    BY <1>12, Zenon DEF RegisterEventTypes, gatewayVars, confVars, StartupTypeOK, GwCalls, NoGwCall
  <2>2. StartupTypeOK'
    BY <2>1, <1>12 DEF RegisterEventTypes, gatewayVars, confVars, StartupTypeOK, MigrationOrder, Boots
  <2>3. CallPlace'
    BY <1>12, Zenon DEF RegisterEventTypes, gatewayVars, confVars, CallPlace, MigrationOrder,
       StartupTypeOK, GwCalls, NoGwCall
  <2>4. MigrationOrder'
    BY <1>12 DEF RegisterEventTypes, gatewayVars, confVars, CallPlace, MigrationOrder, StartupTypeOK,
       GwCalls, NoGwCall, StartupSafe, PortRemembered
  <2>5. StartupSafe'
    BY <1>12, Zenon DEF RegisterEventTypes, gatewayVars, confVars, StartupTypeOK, CallPlace,
       MigrationOrder, StartupSafe, PortRemembered, ReadyMeansMigrated
  <2>. QED BY <2>2, <2>3, <2>4, <2>5, Zenon
<1>13. CASE MigrateLegacyHTTPPort
  <2>1. gwCall' \in GwCalls
    BY <1>13, CallStarted, Zenon DEF MigrateLegacyHTTPPort, gatewayVars, confVars, StartupTypeOK,
       GwCalls, NoGwCall
  <2>2. StartupTypeOK'
    BY <2>1, <1>13, CallStarted, Zenon DEF MigrateLegacyHTTPPort, gatewayVars, confVars, StartupTypeOK,
       CallPlace, Boots
  <2>3. CallPlace'
    BY <1>13, CallStarted, Zenon DEF MigrateLegacyHTTPPort, gatewayVars, confVars, CallPlace,
       MigrationOrder, StartupTypeOK, GwCalls, NoGwCall
  <2>4. MigrationOrder'
    BY <1>13, CallStarted, Zenon DEF MigrateLegacyHTTPPort, gatewayVars, confVars, CallPlace,
       MigrationOrder, StartupTypeOK, GwCalls, NoGwCall, StartupSafe, PortRemembered
  <2>5. StartupSafe'
    BY <1>13, CallStarted DEF MigrateLegacyHTTPPort, gatewayVars, confVars, StartupTypeOK, CallPlace,
       MigrationOrder, StartupSafe, PortRemembered, ReadyMeansMigrated
  <2>. QED BY <2>2, <2>3, <2>4, <2>5, Zenon
<1>14. CASE PersistHTTPPort
  <2>1. gwCall' \in GwCalls
    BY <1>14, Zenon DEF PersistHTTPPort, gatewayVars, StartupTypeOK, GwCalls, NoGwCall
  <2>2. StartupTypeOK'
    BY <2>1, <1>14, Zenon DEF PersistHTTPPort, gatewayVars, StartupTypeOK, CallPlace, Boots
  <2>3. CallPlace'
    BY <1>14, Zenon DEF PersistHTTPPort, gatewayVars, CallPlace, MigrationOrder, StartupTypeOK,
       GwCalls, NoGwCall
  <2>4. MigrationOrder'
    BY <1>14, Zenon DEF PersistHTTPPort, gatewayVars, CallPlace, MigrationOrder, StartupTypeOK,
       GwCalls, NoGwCall, StartupSafe, PortRemembered
  <2>5. StartupSafe'
    BY <1>14, Zenon DEF PersistHTTPPort, gatewayVars, StartupTypeOK, CallPlace, MigrationOrder,
       StartupSafe, PortRemembered, ReadyMeansMigrated
  <2>. QED BY <2>2, <2>3, <2>4, <2>5, Zenon
<1>15. CASE PublishConfig
  <2>1. gwCall' \in GwCalls
    BY <1>15, Zenon DEF PublishConfig, gatewayVars, StartupTypeOK, GwCalls, NoGwCall
  <2>2. StartupTypeOK'
    BY <2>1, <1>15, Zenon DEF PublishConfig, gatewayVars, StartupTypeOK, CallPlace, Boots
  <2>3. CallPlace'
    BY <1>15, Zenon DEF PublishConfig, gatewayVars, CallPlace, MigrationOrder, StartupTypeOK, GwCalls,
       NoGwCall
  <2>4. MigrationOrder'
    BY <1>15, Zenon DEF PublishConfig, gatewayVars, CallPlace, MigrationOrder, StartupTypeOK, GwCalls,
       NoGwCall, StartupSafe, PortRemembered
  <2>5. StartupSafe'
    BY <1>15, Zenon DEF PublishConfig, gatewayVars, StartupTypeOK, CallPlace, MigrationOrder,
       StartupSafe, PortRemembered, ReadyMeansMigrated
  <2>. QED BY <2>2, <2>3, <2>4, <2>5, Zenon
<1>16. CASE SyncConfig
  <2>1. gwCall' \in GwCalls
    BY <1>16, Zenon DEF SyncConfig, gatewayVars, StartupTypeOK, GwCalls, NoGwCall
  <2>2. StartupTypeOK'
    BY <2>1, <1>16, Zenon DEF SyncConfig, gatewayVars, StartupTypeOK, CallPlace, Boots
  <2>3. CallPlace'
    BY <1>16, Zenon DEF SyncConfig, gatewayVars, CallPlace, MigrationOrder, StartupTypeOK, GwCalls, NoGwCall
  <2>4. MigrationOrder'
    BY <1>16, Zenon DEF SyncConfig, gatewayVars, CallPlace, MigrationOrder, StartupTypeOK, GwCalls,
       NoGwCall, StartupSafe, PortRemembered
  <2>5. StartupSafe'
    BY <1>16, Zenon DEF SyncConfig, gatewayVars, StartupTypeOK, CallPlace, MigrationOrder, StartupSafe,
       PortRemembered, ReadyMeansMigrated
  <2>. QED BY <2>2, <2>3, <2>4, <2>5, Zenon
<1>17. CASE Announce
  <2>1. gwCall' \in GwCalls
    BY <1>17, Zenon DEF Announce, gatewayVars, confVars, StartupTypeOK, GwCalls, NoGwCall
  <2>2. StartupTypeOK'
    BY <2>1, <1>17, Zenon DEF Announce, gatewayVars, confVars, StartupTypeOK, CallPlace, Boots
  <2>3. CallPlace'
    BY <1>17, Zenon DEF Announce, gatewayVars, confVars, CallPlace, MigrationOrder, StartupTypeOK,
       GwCalls, NoGwCall
  <2>4. MigrationOrder'
    BY <1>17, Zenon DEF Announce, gatewayVars, confVars, CallPlace, MigrationOrder, StartupTypeOK,
       GwCalls, NoGwCall, StartupSafe, PortRemembered
  <2>5. StartupSafe'
    BY <1>17, Zenon DEF Announce, gatewayVars, confVars, StartupTypeOK, CallPlace, MigrationOrder,
       StartupSafe, PortRemembered, ReadyMeansMigrated
  <2>. QED BY <2>2, <2>3, <2>4, <2>5, Zenon
<1>18. CASE StartupFails
  <2>1. upsets' \in 0 .. MaxUpsets
    BY <1>18, UpsetCounted, Zenon DEF StartupFails
  <2>. QED BY <1>18, <2>1, PanicKeeps, Zenon DEF StartupFails
<1>19. CASE AnswerLost
  <2>1. upsets' \in 0 .. MaxUpsets
    BY <1>19, UpsetCounted, Zenon DEF AnswerLost
  <2>. QED BY <1>19, <2>1, FailedCallKeeps, Zenon DEF AnswerLost
<1>20. CASE PersistFails
  <2>1. upsets' \in 0 .. MaxUpsets
    BY <1>20, UpsetCounted, Zenon DEF PersistFails
  <2>. QED BY <1>20, <2>1, PanicKeeps, Zenon DEF PersistFails
<1>21. CASE ServeEnds
  <2>1. upsets' \in 0 .. MaxUpsets
    BY <1>21, UpsetCounted, Zenon DEF ServeEnds
  <2>. QED BY <1>21, <2>1, PanicKeeps, Zenon DEF ServeEnds
<1>22. CASE GatewayStarts
  <2>1. gwCall' \in GwCalls
    BY <1>22, Zenon DEF GatewayStarts, confVars, StartupTypeOK, GwCalls, NoGwCall
  <2>2. StartupTypeOK'
    BY <2>1, <1>22 DEF GatewayStarts, confVars, StartupTypeOK, CallPlace, Boots
  <2>3. CallPlace'
    BY <1>22, Zenon DEF GatewayStarts, confVars, CallPlace, MigrationOrder, StartupTypeOK, GwCalls, NoGwCall
  <2>4. MigrationOrder'
    BY <1>22, Zenon DEF GatewayStarts, confVars, CallPlace, MigrationOrder, StartupTypeOK, GwCalls,
       NoGwCall, StartupSafe, PortRemembered
  <2>5. StartupSafe'
    BY <1>22, Zenon DEF GatewayStarts, confVars, StartupTypeOK, CallPlace, MigrationOrder, StartupSafe,
       PortRemembered, ReadyMeansMigrated
  <2>. QED BY <2>2, <2>3, <2>4, <2>5, Zenon
<1>23. CASE GatewayEnds
  <2>1. gwCall' \in GwCalls
    BY <1>23, UpsetCounted, Zenon DEF GatewayEnds, confVars, StartupTypeOK, GwCalls, NoGwCall
  <2>2. StartupTypeOK'
    BY <2>1, <1>23, UpsetCounted, Zenon DEF GatewayEnds, confVars, StartupTypeOK, CallPlace, Boots
  <2>3. CallPlace'
    BY <1>23, UpsetCounted, Zenon DEF GatewayEnds, confVars, CallPlace, MigrationOrder, StartupTypeOK,
       GwCalls, NoGwCall
  <2>4. MigrationOrder'
    BY <1>23, UpsetCounted, Zenon DEF GatewayEnds, confVars, CallPlace, MigrationOrder, StartupTypeOK,
       GwCalls, NoGwCall, StartupSafe, PortRemembered
  <2>5. StartupSafe'
    BY <1>23, UpsetCounted DEF GatewayEnds, confVars, StartupTypeOK, CallPlace, MigrationOrder,
       StartupSafe, PortRemembered, ReadyMeansMigrated
  <2>. QED BY <2>2, <2>3, <2>4, <2>5, Zenon
<1>24. CASE LateChange
  <2>1. gwCall' \in GwCalls
    BY <1>24, Zenon DEF LateChange, confVars, Serves, StartupTypeOK, GwCalls, NoGwCall
  <2>2. StartupTypeOK'
    BY <2>1, <1>24, Zenon DEF LateChange, confVars, Serves, StartupTypeOK, CallPlace, Boots
  <2>3. CallPlace'
    BY <1>24, Zenon DEF LateChange, confVars, Serves, CallPlace, MigrationOrder, StartupTypeOK,
       GwCalls, NoGwCall
  <2>4. MigrationOrder'
    BY <1>24, Zenon DEF LateChange, confVars, Serves, CallPlace, MigrationOrder, StartupTypeOK,
       GwCalls, NoGwCall, StartupSafe, PortRemembered
  <2>5. StartupSafe'
    BY <1>24 DEF LateChange, confVars, Serves, StartupTypeOK, CallPlace, MigrationOrder, StartupSafe,
       PortRemembered, ReadyMeansMigrated
  <2>. QED BY <2>2, <2>3, <2>4, <2>5, Zenon
<1>25. CASE ChangeUnanswered
  <2>1. gwCall' \in GwCalls
    BY <1>25, CallStarted, UpsetCounted, Zenon DEF ChangeUnanswered, confVars, Serves, StartupTypeOK,
       GwCalls, NoGwCall
  <2>2. StartupTypeOK'
    BY <2>1, <1>25, CallStarted, UpsetCounted, Zenon DEF ChangeUnanswered, confVars, Serves,
       StartupTypeOK, CallPlace, Boots
  <2>3. CallPlace'
    BY <1>25, CallStarted, UpsetCounted, Zenon DEF ChangeUnanswered, confVars, Serves, CallPlace,
       MigrationOrder, StartupTypeOK, GwCalls, NoGwCall
  <2>4. MigrationOrder'
    BY <1>25, CallStarted, UpsetCounted, Zenon DEF ChangeUnanswered, confVars, Serves, CallPlace,
       MigrationOrder, StartupTypeOK, GwCalls, NoGwCall, StartupSafe, PortRemembered
  <2>5. StartupSafe'
    BY <1>25, CallStarted, UpsetCounted DEF ChangeUnanswered, confVars, Serves, StartupTypeOK,
       CallPlace, MigrationOrder, StartupSafe, PortRemembered, ReadyMeansMigrated
  <2>. QED BY <2>2, <2>3, <2>4, <2>5, Zenon
<1>26. CASE GatewayMoved
  <2>1. gwCall' \in GwCalls
    BY <1>26, UpsetCounted, Zenon DEF GatewayMoved, confVars, Serves, StartupTypeOK, GwCalls, NoGwCall
  <2>2. StartupTypeOK'
    BY <2>1, <1>26, UpsetCounted DEF GatewayMoved, confVars, Serves, StartupTypeOK, CallPlace, Boots
  <2>3. CallPlace'
    BY <1>26, UpsetCounted, Zenon DEF GatewayMoved, confVars, Serves, CallPlace, MigrationOrder,
       StartupTypeOK, GwCalls, NoGwCall
  <2>4. MigrationOrder'
    BY <1>26, UpsetCounted, Zenon DEF GatewayMoved, confVars, Serves, CallPlace, MigrationOrder,
       StartupTypeOK, GwCalls, NoGwCall, StartupSafe, PortRemembered
  <2>5. StartupSafe'
    BY <1>26, UpsetCounted DEF GatewayMoved, confVars, Serves, StartupTypeOK, CallPlace,
       MigrationOrder, StartupSafe, PortRemembered, ReadyMeansMigrated
  <2>. QED BY <2>2, <2>3, <2>4, <2>5, Zenon
<1>27. CASE PowerLoss
  <2>1. gwCall' \in GwCalls
    BY <1>27, UpsetCounted DEF PowerLoss, StartupTypeOK, GwCalls, NoGwCall
  <2>a. upsets' \in 0 .. MaxUpsets
    BY <1>27, UpsetCounted, Zenon DEF PowerLoss
  <2>b. confFile' \in {NoPort, LegacyPort} /\ confSafe' = confFile'
    BY <1>27, Zenon DEF PowerLoss, StartupTypeOK
  <2>c. gwUp' \in BOOLEAN /\ late' \in BOOLEAN /\ owed' \in BOOLEAN
    BY <1>27, Zenon DEF PowerLoss, StartupTypeOK
  <2>d. routed' \in 0 .. RouteCount /\ busTried' \in 0 .. BusTries /\ bootStep' \in Boots
    BY <1>27 DEF PowerLoss, Boots
  <2>2. StartupTypeOK'
    BY <2>1, <2>a, <2>b, <2>c, <2>d, <1>27, Zenon DEF PowerLoss, StartupTypeOK, Boots
  <2>3. CallPlace'
    BY <1>27, UpsetCounted, Zenon DEF PowerLoss, CallPlace, MigrationOrder, StartupTypeOK, GwCalls, NoGwCall
  <2>4. MigrationOrder'
    BY <1>27, UpsetCounted DEF PowerLoss, CallPlace, MigrationOrder, StartupTypeOK, GwCalls, NoGwCall,
       StartupSafe, PortRemembered
  <2>5. StartupSafe'
    BY <1>27, UpsetCounted, Zenon DEF PowerLoss, StartupTypeOK, CallPlace, MigrationOrder, StartupSafe,
       PortRemembered, ReadyMeansMigrated
  <2>. QED BY <2>2, <2>3, <2>4, <2>5, Zenon
<1>28. CASE UNCHANGED startupVars
  BY <1>28 DEF startupVars, gatewayVars, confVars, StartupTypeOK, CallPlace, MigrationOrder,
     StartupSafe, PortRemembered, ReadyMeansMigrated
<1>. QED
  BY <1>1, <1>2, <1>3, <1>4, <1>5, <1>6, <1>7, <1>8, <1>9, <1>10, <1>11,
     <1>12, <1>13, <1>14, <1>15, <1>16, <1>17, <1>18, <1>19, <1>20, <1>21,
     <1>22, <1>23, <1>24, <1>25, <1>26, <1>27, <1>28 DEF StartupNext,
     ServiceSteps

(* For all ports, counts and bounds: a legacy port stays in the file until   *)
(* the gateway has taken it, and the service announces itself only when      *)
(* nothing is left to migrate (MigrateLegacyHTTPPort and main).              *)
THEOREM StartupIsSafe == StartupSpec => []StartupSafe
<1>1. StartupInv => StartupSafe
  BY Zenon DEF StartupInv
<1>. QED
  BY StartupInvInit, StartupInvStep, <1>1, PTL DEF StartupSpec

(***************************************************************************)
(* The cutover of the stored credentials is atomic: the durable database   *)
(* is wholly legacy or wholly sealed, every caller learns which, and no    *)
(* transaction is left open.                                               *)
(***************************************************************************)
RowRecords == [kind : {"absent", "legacy", "sealed"}, port : {"", "139", "445"},
               sound : BOOLEAN, pw : BOOLEAN, key : Keys \cup {NoKey}]
Databases == [schema : {"absent", "old", "partial", "expanded"},
              flaws : SUBSET Flaws, controlTable : BOOLEAN,
              control : Keys \cup {NoKey}, marker : {"none", "pending"},
              rows : [Rows -> RowRecords]]
CallSteps == {"idle", "inspect", "load", "seal", "authenticate", "commit", "rollback"}
Calls == [pc : CallSteps, id : Keys \cup {NoKey}, todo : SUBSET Rows,
          told : {"nothing", "done", "error", "unknown"}]
Rings == [active : Keys, keys : SUBSET Keys, alive : BOOLEAN]

CutoverTypeOK ==
  /\ db \in Databases
  /\ writer \in Callers \cup {Nobody} /\ (writer # Nobody => draft \in Databases)
  /\ keyring \in [Callers -> Rings] /\ cut \in [Callers -> Calls]
  /\ touched \subseteq Callers

(* A migration under way: the marker and the control row are written, the  *)
(* rows still to do are legacy, the others sealed.                         *)
HalfSealed(d, k, todo) ==
  /\ d.marker = "pending" /\ d.control = k /\ k \in Keys
  /\ \A r \in Rows :
       /\ r \in todo => /\ d.rows[r].kind = "legacy" /\ NormalizedPort(d.rows[r]) = "445"
       /\ r \notin todo /\ d.rows[r].kind # "absent" =>
             /\ d.rows[r].kind = "sealed" /\ ~d.rows[r].pw
             /\ d.rows[r].key = k /\ d.rows[r].port = "445"

(* What a call at a place knows of its transaction and of the database.    *)
KnownAt(pc, id, todo, dr, d) ==
  /\ pc = "load" => AllLegacy(dr) /\ AllLegacy(d)
  /\ pc = "seal" => HalfSealed(dr, id, todo) /\ AllLegacy(d)
  /\ pc \in {"authenticate", "commit"} =>
        /\ AllSealed(dr, id)
        /\ AllLegacy(d) \/ AllSealed(d, id)

CallKnows(c) ==
  /\ cut[c].pc # "idle" => /\ writer = c /\ c \notin touched
                           /\ cut[c].told = "nothing" /\ cut[c].id = keyring[c].active
  /\ cut[c].pc = "inspect" => draft = db
  /\ KnownAt(cut[c].pc, cut[c].id, cut[c].todo, draft, db)

RingsHoldTheirKey == \A c \in Callers : keyring[c].active \in keyring[c].keys

(* A contained write goes on only from a database it found wholly legacy.  *)
EditKnows ==
  edit.pc = "write" =>
    /\ edit.row \in Rows /\ edit.op \in {"create", "mounted", "delete"}
    /\ \A d \in edit.seen : LegacyOnly(d)

CutoverInv ==
  /\ CutoverTypeOK /\ RingsHoldTheirKey /\ EditKnows
  /\ \A c \in Callers : CallKnows(c)
  /\ CutoverAtomic

----------------------------------------------------------------------------
(* Adding the columns or the control table changes no row, marker or       *)
(* control row, so that a legacy database stays legacy and a sealed one    *)
(* sealed.                                                                 *)
LEMMA TablesAdded ==
  ASSUME NEW d \in Databases, NEW e \in {Expanded(d), WithControlTable(d)}
  PROVE  /\ e \in Databases
         /\ AllLegacy(d) => AllLegacy(e)
         /\ \A k : AllSealed(d, k) => AllSealed(e, k)
         /\ AllLegacy(e) => AllLegacy(d)
         /\ \A k : AllSealed(e, k) => AllSealed(d, k)
<1>1. e \in Databases
  BY Zenon DEF Databases, Expanded, WithControlTable
<1>2. e.marker = d.marker /\ e.control = d.control /\ e.rows = d.rows
  BY Zenon DEF Databases, Expanded, WithControlTable
<1>3. Present(e) = Present(d)
  BY <1>2, Zenon DEF Present
<1>. QED BY <1>1, <1>2, <1>3 DEF AllLegacy, AllSealed

(* A database is not legacy and sealed at once, and a check that finds no  *)
(* marker, or finds it, tells which.                                       *)
LEMMA WhichForm ==
  ASSUME NEW d \in Databases
  PROVE  /\ \A k : ~(AllLegacy(d) /\ AllSealed(d, k))
         /\ \A k, l : AllSealed(d, k) /\ AllSealed(d, l) => k = l
         /\ (AllLegacy(d) \/ AllSealed(d, d.control)) /\ d.marker = "none" => AllLegacy(d)
         /\ (AllLegacy(d) \/ AllSealed(d, d.control)) /\ d.marker = "pending" => AllSealed(d, d.control)
  BY Zenon DEF AllLegacy, AllSealed

(* The contained writes of the legacy service keep a legacy database       *)
(* legacy.                                                                 *)
LEMMA EditsStayLegacy ==
  ASSUME NEW d \in Databases, AllLegacy(d), NEW r \in Rows,
         NEW op \in {"create", "mounted", "delete"}, NEW e \in Edited(op, d, r)
  PROVE  e \in Databases /\ AllLegacy(e)
<1>1. PICK w \in RowRecords : /\ e = [d EXCEPT !.rows[r] = w]
                              /\ w.kind # "absent" => w.kind = "legacy" /\ w.pw
  <2>1. CASE op = "create"
    <3>1. LegacyRow("445", TRUE) \in RowRecords
      BY Zenon DEF LegacyRow, RowRecords
    <3>. QED BY <2>1, <3>1, Zenon DEF Edited, LegacyRow
  <2>2. CASE op = "delete"
    <3>1. Absent \in RowRecords
      BY Zenon DEF Absent, RowRecords
    <3>. QED BY <2>2, <3>1, Zenon DEF Edited, Absent
  <2>3. CASE op = "mounted"
    <3>1. d.rows[r] \in RowRecords
      BY Zenon DEF Databases
    <3>. DEFINE w == [d.rows[r] EXCEPT !.port = "445", !.sound = TRUE]
    <3>2. w \in RowRecords /\ w.kind = d.rows[r].kind /\ w.pw = d.rows[r].pw
      BY <3>1, Zenon DEF RowRecords
    <3>3. e = [d EXCEPT !.rows[r].port = "445", !.rows[r].sound = TRUE]
      BY <2>3, Zenon DEF Edited
    <3>4. e = [d EXCEPT !.rows[r] = w]
      BY <3>3, <3>1, Zenon DEF Databases, RowRecords
    <3>5. w.kind # "absent" => w.kind = "legacy" /\ w.pw
      BY <3>2, Zenon DEF AllLegacy, Present
    <3>. QED BY <3>2, <3>4, <3>5, Zenon
  <2>. QED BY <2>1, <2>2, <2>3, Zenon
<1>2. e \in Databases
  BY <1>1, Zenon DEF Databases
<1>3. e.marker = d.marker /\ e.control = d.control /\ e.rows = [d.rows EXCEPT ![r] = w]
  BY <1>1, Zenon DEF Databases
<1>4. \A q \in Rows : e.rows[q] = IF q = r THEN w ELSE d.rows[q]
  BY <1>3, Zenon DEF Databases
<1>. QED BY <1>1, <1>2, <1>3, <1>4 DEF AllLegacy, Present

(* The marker and the control row turn a legacy database whose rows were   *)
(* loaded into a migration with every row to do.                           *)
LEMMA Marked ==
  ASSUME NEW d \in Databases, AllLegacy(d), LegacyRowsLoaded(d), NEW k \in Keys,
         NEW e, e = [d EXCEPT !.marker = "pending", !.control = k]
  PROVE  e \in Databases /\ HalfSealed(e, k, Present(d))
<1>1. e \in Databases /\ e.marker = "pending" /\ e.control = k /\ e.rows = d.rows
  BY Zenon DEF Databases
<1>. QED BY <1>1, Zenon DEF HalfSealed, AllLegacy, Present, LegacyRowsLoaded, RuntimeFieldsValid

(* One row more is sealed. *)
LEMMA OneMoreSealed ==
  ASSUME NEW d \in Databases, NEW k, NEW todo \in SUBSET Rows, HalfSealed(d, k, todo), NEW r \in todo,
         NEW e, e = [d EXCEPT !.rows[r] = SealedRow(@, k)]
  PROVE  e \in Databases /\ HalfSealed(e, k, todo \ {r})
<1>1. d.rows[r] \in RowRecords /\ k \in Keys
  BY Zenon DEF Databases, HalfSealed
<1>. DEFINE w == SealedRow(d.rows[r], k)
<1>2. NormalizedPort(d.rows[r]) = "445"
  BY Zenon DEF HalfSealed
<1>3. /\ w \in RowRecords /\ w.kind = "sealed" /\ ~w.pw /\ w.key = k /\ w.port = "445"
  BY <1>1, <1>2, Zenon DEF SealedRow, RowRecords
<1>. HIDE DEF w
<1>4. e = [d EXCEPT !.rows[r] = w]
  BY Zenon DEF w, Databases
<1>5. e \in Databases /\ e.marker = d.marker /\ e.control = d.control
  BY <1>3, <1>4 DEF Databases
<1>6. \A q \in Rows : e.rows[q] = IF q = r THEN w ELSE d.rows[q]
  BY <1>4 DEF Databases
<1>. QED BY <1>3, <1>5, <1>6 DEF HalfSealed

(* With nothing left to do the database is sealed. *)
LEMMA NothingLeft ==
  ASSUME NEW d \in Databases, NEW k, HalfSealed(d, k, {})
  PROVE  AllSealed(d, k)
  BY Zenon DEF HalfSealed, AllSealed, Present

----------------------------------------------------------------------------
(* The caller that has the transaction is the only one inside a call. *)
LEMMA OthersIdle ==
  ASSUME CutoverInv, NEW c \in Callers, writer \in {c, Nobody}, NEW d \in Callers, d # c
  PROVE  cut[d].pc = "idle"
  BY CutoverConstants, Zenon DEF CutoverInv, CallKnows

(* A caller that was told of success still finds the database sealed under *)
(* its key when the database is replaced by one that keeps a sealed form.  *)
LEMMA DoneStays ==
  ASSUME CutoverInv, NEW c \in Callers, cut[c].told = "done",
         \A k : AllSealed(db, k) => AllSealed(db', k),
         keyring[c].keys \subseteq keyring'[c].keys
  PROVE  \E k \in Keys : AllSealed(db', k) /\ k \in keyring'[c].keys
<1>1. PICK k \in Keys : AllSealed(db, k) /\ k \in keyring[c].keys
  BY Zenon DEF CutoverInv, CutoverAtomic, OutcomeTold
<1>. QED BY <1>1, Zenon

(* A step inside a call changes the draft and the caller's place, and what *)
(* the caller knows at its new place is known.                             *)
LEMMA CallGoesOn ==
  ASSUME CutoverInv, NEW c \in Callers, cut[c].pc # "idle",
         UNCHANGED <<db, writer, keyring, edit, touched>>,
         draft' \in Databases,
         NEW pc \in CallSteps \ {"idle", "inspect"}, NEW todo \in SUBSET Rows,
         cut' = [cut EXCEPT ![c] = [@ EXCEPT !.pc = pc, !.todo = todo]],
         KnownAt(pc, cut[c].id, todo, draft', db)
  PROVE  CutoverInv'
<1>1. cut[c] \in Calls /\ writer = c /\ cut \in [Callers -> Calls]
  BY Zenon DEF CutoverInv, CutoverTypeOK, CallKnows
<1>2. /\ cut'[c] \in Calls /\ cut'[c].pc = pc /\ cut'[c].todo = todo
      /\ cut'[c].id = cut[c].id /\ cut'[c].told = cut[c].told
  BY <1>1, Zenon DEF Calls
<1>3. \A d \in Callers : d # c => cut'[d] = cut[d] /\ cut[d].pc = "idle"
  BY <1>1, OthersIdle, Zenon
<1>4. CutoverTypeOK'
  <2>1. cut' \in [Callers -> Calls]
    BY <1>1, <1>2, Zenon
  <2>. QED BY <2>1, Zenon DEF CutoverInv, CutoverTypeOK
<1>5. CallKnows(c)'
  BY <1>1, <1>2, Zenon DEF CallKnows, CutoverInv
<1>6. \A d \in Callers : d # c => CallKnows(d)'
  BY <1>3, Zenon DEF CallKnows, KnownAt
<1>7. CutoverAtomic'
  <2>1. AllOrNothing'
    BY Zenon DEF CutoverInv, CutoverAtomic, AllOrNothing, AllLegacy, AllSealed, Present
  <2>2. OutcomeTold'
    <3>1. \A d \in Callers : cut'[d].told = cut[d].told
      BY <1>2, <1>3, Zenon
    <3>. QED BY <3>1, DoneStays, Zenon DEF CutoverInv, CutoverAtomic, OutcomeTold
  <2>3. NoOrphanTransaction'
    BY <1>1, <1>2, Zenon DEF CutoverInv, CutoverAtomic, NoOrphanTransaction
  <2>. QED BY <2>1, <2>2, <2>3 DEF CutoverAtomic
<1>8. RingsHoldTheirKey' /\ EditKnows'
  BY Zenon DEF CutoverInv, RingsHoldTheirKey, EditKnows
<1>. QED BY <1>4, <1>5, <1>6, <1>7, <1>8 DEF CutoverInv

(* A call that returns gives the transaction back; the database it leaves  *)
(* is whole, keeps a sealed form, and is what the caller is told.          *)
LEMMA CallReturns ==
  ASSUME CutoverInv, NEW c \in Callers, writer \in {c, Nobody},
         UNCHANGED <<keyring, edit>>, writer' = Nobody, db' \in Databases,
         NEW told \in {"done", "error", "unknown"},
         cut' = [cut EXCEPT ![c] = [NoCut EXCEPT !.told = told]],
         AllLegacy(db') \/ AllSealed(db', db'.control),
         \A k : AllSealed(db, k) => AllSealed(db', k),
         touched' \subseteq touched \cup {c},
         told = "done" => AllSealed(db', keyring[c].active),
         told = "error" => c \notin touched'
  PROVE  CutoverInv'
<1>1. cut \in [Callers -> Calls] /\ keyring \in [Callers -> Rings] /\ touched \subseteq Callers
  BY Zenon DEF CutoverInv, CutoverTypeOK
<1>2. cut'[c] = [pc |-> "idle", id |-> NoKey, todo |-> {}, told |-> told]
  BY <1>1, Zenon DEF NoCut
<1>3. cut'[c] \in Calls
  BY <1>2 DEF Calls, CallSteps
<1>4. \A d \in Callers : d # c => cut'[d] = cut[d] /\ cut[d].pc = "idle"
  BY <1>1, OthersIdle, Zenon
<1>5. CutoverTypeOK'
  <2>1. cut' \in [Callers -> Calls]
    BY <1>1, <1>3, Zenon
  <2>. QED BY <1>1, <2>1, Zenon DEF CutoverTypeOK
<1>6. \A d \in Callers : CallKnows(d)'
  BY <1>2, <1>4 DEF CallKnows, KnownAt
<1>7. OutcomeTold'
  <2>1. keyring[c].active \in Keys /\ keyring[c].active \in keyring[c].keys
    BY <1>1, Zenon DEF CutoverInv, RingsHoldTheirKey, Rings
  <2>2. /\ cut'[c].told = "done" => \E k \in Keys : AllSealed(db', k) /\ k \in keyring'[c].keys
        /\ cut'[c].told = "error" => c \notin touched'
    BY <1>2, <2>1
  <2>3. ASSUME NEW d \in Callers, d # c
        PROVE  /\ cut'[d].told = "done" => \E k \in Keys : AllSealed(db', k) /\ k \in keyring'[d].keys
               /\ cut'[d].told = "error" => d \notin touched'
    BY <1>4, <2>3, DoneStays, Zenon DEF CutoverInv, CutoverAtomic, OutcomeTold
  <2>. QED BY <2>2, <2>3, Zenon DEF OutcomeTold
<1>8. CutoverAtomic'
  BY <1>7, Zenon DEF CutoverAtomic, AllOrNothing, NoOrphanTransaction
<1>9. RingsHoldTheirKey' /\ EditKnows'
  BY Zenon DEF CutoverInv, RingsHoldTheirKey, EditKnows
<1>. QED BY <1>5, <1>6, <1>8, <1>9 DEF CutoverInv

(* The legacy service writes only while nobody has the transaction, and    *)
(* only from a legacy database to a legacy database.                       *)
LEMMA LegacyWritten ==
  ASSUME CutoverInv, writer = Nobody, UNCHANGED <<writer, keyring, cut, touched>>,
         AllLegacy(db), db' \in Databases, AllLegacy(db'), EditKnows'
  PROVE  CutoverInv'
<1>1. \A c \in Callers : cut[c].pc = "idle"
  BY CutoverConstants, Zenon DEF CutoverInv, CallKnows
<1>2. \A c \in Callers : CallKnows(c)'
  BY <1>1, Zenon DEF CallKnows, KnownAt
<1>3. OutcomeTold'
  BY WhichForm, Zenon DEF CutoverInv, CutoverTypeOK, CutoverAtomic, OutcomeTold
<1>4. CutoverTypeOK' /\ RingsHoldTheirKey'
  BY Zenon DEF CutoverInv, CutoverTypeOK, RingsHoldTheirKey
<1>. QED BY <1>2, <1>3, <1>4, Zenon DEF CutoverInv, CutoverAtomic, AllOrNothing, NoOrphanTransaction

(* The keyring may gain a key between calls, or be destroyed at any time.  *)
LEMMA RingChanges ==
  ASSUME CutoverInv, NEW c \in Callers, Rotate(c) \/ Destroy(c)
  PROVE  CutoverInv'
<1>1. /\ keyring' \in [Callers -> Rings] /\ RingsHoldTheirKey'
      /\ \A d \in Callers : keyring[d].keys \subseteq keyring'[d].keys
      /\ \A d \in Callers : cut[d].pc # "idle" => keyring'[d].active = keyring[d].active
  <2>1. CASE Rotate(c)
    <3>1. PICK k \in Keys \ keyring[c].keys :
             keyring' = [keyring EXCEPT ![c].active = k, ![c].keys = @ \cup {k}]
      BY <2>1, Zenon DEF Rotate
    <3>2. keyring \in [Callers -> Rings] /\ keyring[c] \in Rings /\ cut[c].pc = "idle"
      BY <2>1, Zenon DEF Rotate, CutoverInv, CutoverTypeOK
    <3>3. /\ keyring'[c] \in Rings /\ keyring'[c].active = k
          /\ keyring'[c].keys = keyring[c].keys \cup {k}
      BY <3>1, <3>2, Zenon DEF Rings
    <3>4. \A d \in Callers : d # c => keyring'[d] = keyring[d]
      BY <3>1, <3>2, Zenon
    <3>5. keyring' \in [Callers -> Rings]
      BY <3>1, <3>2, <3>3, <3>4, Zenon
    <3>. QED BY <3>2, <3>3, <3>4, <3>5, Zenon DEF CutoverInv, RingsHoldTheirKey
  <2>2. CASE Destroy(c)
    BY <2>2, Zenon DEF Destroy, CutoverInv, CutoverTypeOK, RingsHoldTheirKey, Rings
  <2>. QED BY <2>1, <2>2, Zenon
<1>2. UNCHANGED <<db, draft, writer, cut, edit, touched>>
  BY Zenon DEF Rotate, Destroy
<1>3. OutcomeTold'
  BY <1>1, <1>2, DoneStays, Zenon DEF CutoverInv, CutoverAtomic, OutcomeTold
<1>4. \A d \in Callers : CallKnows(d)'
  BY <1>1, <1>2, Zenon DEF CutoverInv, CallKnows
<1>5. CutoverTypeOK' /\ EditKnows'
  BY <1>1, <1>2, Zenon DEF CutoverInv, CutoverTypeOK, EditKnows
<1>. QED BY <1>1, <1>2, <1>3, <1>4, <1>5 DEF CutoverInv, CutoverAtomic, AllOrNothing, NoOrphanTransaction

----------------------------------------------------------------------------
(* What every state of the invariant says of its parts. *)
LEMMA InvFacts ==
  ASSUME CutoverInv
  PROVE  /\ db \in Databases /\ keyring \in [Callers -> Rings] /\ cut \in [Callers -> Calls]
         /\ AllLegacy(db) \/ AllSealed(db, db.control)
         /\ \A c \in Callers : cut[c] \in Calls /\ keyring[c] \in Rings
         /\ \A c \in Callers : cut[c].pc # "idle" =>
               /\ writer = c /\ draft \in Databases /\ c \notin touched
               /\ cut[c].id = keyring[c].active /\ cut[c].id \in Keys
<1>1. \A c \in Callers : keyring[c].active \in Keys
  BY Zenon DEF CutoverInv, CutoverTypeOK, Rings
<1>. QED BY <1>1, CutoverConstants, Zenon DEF CutoverInv, CutoverTypeOK, CutoverAtomic, AllOrNothing,
            CallKnows

(* A call that goes on at another place, with the same rows to do. *)
LEMMA GoesOn ==
  ASSUME CutoverInv, NEW c \in Callers, NEW pc, Goes(c, pc)
  PROVE  cut' = [cut EXCEPT ![c] = [@ EXCEPT !.pc = pc, !.todo = cut[c].todo]]
<1>1. cut \in [Callers -> Calls] /\ cut[c] \in Calls
  BY InvFacts, Zenon
<1>2. [cut[c] EXCEPT !.pc = pc] = [cut[c] EXCEPT !.pc = pc, !.todo = cut[c].todo]
  BY <1>1, Zenon DEF Calls
<1>. QED BY <1>1, <1>2, Zenon DEF Goes

LEMMA RollbackNext ==
  ASSUME CutoverInv, NEW c \in Callers, cut[c].pc # "idle", Goes(c, "rollback"), UNCHANGED draft,
         UNCHANGED <<db, writer, keyring, edit, touched>>
  PROVE  CutoverInv'
<1>1. draft' \in Databases /\ cut[c].todo \in SUBSET Rows
  BY InvFacts, Zenon DEF Calls
<1>2. cut' = [cut EXCEPT ![c] = [@ EXCEPT !.pc = "rollback", !.todo = cut[c].todo]]
  BY GoesOn, Zenon
<1>3. "rollback" \in CallSteps \ {"idle", "inspect"}
  BY Zenon DEF CallSteps
<1>4. KnownAt("rollback", cut[c].id, cut[c].todo, draft', db)
  BY Zenon DEF KnownAt
<1>. QED BY <1>1, <1>2, <1>3, <1>4, CallGoesOn, Zenon

LEMMA InspectKeeps ==
  ASSUME CutoverInv, NEW c \in Callers, CutoverInspects(c)
  PROVE  CutoverInv'
<1>. DEFINE d == WithControlTable(draft)
<1>1. /\ cut[c].pc = "inspect" /\ UNCHANGED <<db, writer, keyring, edit, touched>>
      /\ draft = db /\ draft \in Databases /\ cut[c].todo \in SUBSET Rows
  BY InvFacts, Zenon DEF CutoverInspects, CutoverInv, CallKnows, Calls
<1>2. /\ d \in Databases
      /\ AllLegacy(d) => AllLegacy(draft)
      /\ \A k : AllSealed(d, k) => AllSealed(draft, k)
      /\ AllLegacy(draft) => AllLegacy(d)
      /\ \A k : AllSealed(draft, k) => AllSealed(d, k)
  BY <1>1, TablesAdded, Zenon
<1>3. d.marker = draft.marker /\ d.control = draft.control
  BY <1>1, Zenon DEF WithControlTable, Databases
<1>. HIDE DEF d
<1>4. AllLegacy(draft) \/ AllSealed(draft, draft.control)
  BY <1>1, InvFacts, Zenon
<1>5. CASE Goes(c, "load") /\ draft' = d /\ ToMigrate(d)
  <2>1. AllLegacy(draft) /\ AllLegacy(d)
    BY <1>1, <1>2, <1>3, <1>4, <1>5, WhichForm, Zenon DEF ToMigrate
  <2>2. KnownAt("load", cut[c].id, cut[c].todo, draft', db)
    BY <1>1, <1>5, <2>1, Zenon DEF KnownAt
  <2>3. "load" \in CallSteps \ {"idle", "inspect"}
    BY Zenon DEF CallSteps
  <2>4. cut' = [cut EXCEPT ![c] = [@ EXCEPT !.pc = "load", !.todo = cut[c].todo]]
    BY <1>5, GoesOn, Zenon
  <2>. QED BY <1>1, <1>2, <1>5, <2>2, <2>3, <2>4, CallGoesOn, Zenon
<1>6. CASE Goes(c, "authenticate") /\ draft' = d /\ ToAuthenticate(d, cut[c].id)
  <2>1. AllSealed(draft, cut[c].id) /\ AllSealed(d, cut[c].id)
    BY <1>1, <1>2, <1>3, <1>4, <1>6, WhichForm, Zenon DEF ToAuthenticate
  <2>2. KnownAt("authenticate", cut[c].id, cut[c].todo, draft', db)
    BY <1>1, <1>6, <2>1, Zenon DEF KnownAt
  <2>3. "authenticate" \in CallSteps \ {"idle", "inspect"}
    BY Zenon DEF CallSteps
  <2>4. cut' = [cut EXCEPT ![c] = [@ EXCEPT !.pc = "authenticate", !.todo = cut[c].todo]]
    BY <1>6, GoesOn, Zenon
  <2>. QED BY <1>1, <1>2, <1>6, <2>2, <2>3, <2>4, CallGoesOn, Zenon
<1>7. CASE Goes(c, "rollback") /\ UNCHANGED draft
  BY <1>1, <1>7, RollbackNext, Zenon
<1>. QED BY <1>5, <1>6, <1>7, Zenon DEF CutoverInspects, Compatible, d

LEMMA MarkKeeps ==
  ASSUME CutoverInv, NEW c \in Callers, MarkPending(c)
  PROVE  CutoverInv'
<1>1. /\ cut[c].pc = "load" /\ UNCHANGED <<db, writer, keyring, edit, touched>>
      /\ AllLegacy(draft) /\ AllLegacy(db) /\ draft \in Databases
      /\ cut[c].id \in Keys /\ cut[c] \in Calls /\ cut \in [Callers -> Calls]
  BY InvFacts, Zenon DEF MarkPending, CutoverInv, CallKnows, KnownAt
<1>2. CASE /\ LegacyRowsLoaded(draft)
           /\ draft' = [draft EXCEPT !.marker = "pending", !.control = cut[c].id]
           /\ cut' = [cut EXCEPT ![c].pc = "seal", ![c].todo = Present(draft)]
  <2>1. draft' \in Databases /\ HalfSealed(draft', cut[c].id, Present(draft))
    BY <1>1, <1>2, Marked, Zenon
  <2>2. cut' = [cut EXCEPT ![c] = [@ EXCEPT !.pc = "seal", !.todo = Present(draft)]]
    BY <1>1, <1>2, Zenon DEF Calls
  <2>3. Present(draft) \in SUBSET Rows
    BY Zenon DEF Present
  <2>4. KnownAt("seal", cut[c].id, Present(draft), draft', db)
    BY <1>1, <2>1, Zenon DEF KnownAt
  <2>5. "seal" \in CallSteps \ {"idle", "inspect"}
    BY Zenon DEF CallSteps
  <2>. QED BY <1>1, <2>1, <2>2, <2>3, <2>4, <2>5, CallGoesOn, Zenon
<1>3. CASE Goes(c, "rollback") /\ UNCHANGED draft
  BY <1>1, <1>3, RollbackNext, Zenon
<1>. QED BY <1>2, <1>3, Zenon DEF MarkPending

LEMMA SealKeeps ==
  ASSUME CutoverInv, NEW c \in Callers, SealRow(c) \/ SealedAll(c)
  PROVE  CutoverInv'
<1>1. /\ cut[c].pc = "seal" /\ UNCHANGED <<db, writer, keyring, edit, touched>>
      /\ HalfSealed(draft, cut[c].id, cut[c].todo) /\ AllLegacy(db) /\ draft \in Databases
      /\ cut[c].id = keyring[c].active /\ cut[c].todo \in SUBSET Rows
      /\ cut[c] \in Calls /\ cut \in [Callers -> Calls]
  BY InvFacts, Zenon DEF SealRow, SealedAll, CutoverInv, CallKnows, KnownAt, Calls
<1>2. ASSUME NEW r \in cut[c].todo,
             draft' = [draft EXCEPT !.rows[r] = SealedRow(@, keyring[c].active)],
             cut' = [cut EXCEPT ![c].todo = @ \ {r}]
      PROVE  CutoverInv'
  <2>1. draft' \in Databases /\ HalfSealed(draft', cut[c].id, cut[c].todo \ {r})
    BY <1>1, <1>2, OneMoreSealed, Zenon
  <2>2. cut' = [cut EXCEPT ![c] = [@ EXCEPT !.pc = "seal", !.todo = cut[c].todo \ {r}]]
    BY <1>1, <1>2, Zenon DEF Calls
  <2>3. KnownAt("seal", cut[c].id, cut[c].todo \ {r}, draft', db)
    BY <1>1, <2>1, Zenon DEF KnownAt
  <2>4. "seal" \in CallSteps \ {"idle", "inspect"}
    BY Zenon DEF CallSteps
  <2>5. cut[c].todo \ {r} \in SUBSET Rows
    BY <1>1, Zenon
  <2>. QED BY <1>1, <2>1, <2>2, <2>3, <2>4, <2>5, CallGoesOn, Zenon
<1>3. CASE SealedAll(c)
  <2>1. AllSealed(draft, cut[c].id)
    BY <1>1, <1>3, NothingLeft, Zenon DEF SealedAll
  <2>a. Goes(c, "authenticate") /\ UNCHANGED draft
    BY <1>3, Zenon DEF SealedAll
  <2>2. KnownAt("authenticate", cut[c].id, cut[c].todo, draft', db)
    BY <1>1, <2>1, <2>a, Zenon DEF KnownAt
  <2>3. "authenticate" \in CallSteps \ {"idle", "inspect"}
    BY Zenon DEF CallSteps
  <2>4. cut' = [cut EXCEPT ![c] = [@ EXCEPT !.pc = "authenticate", !.todo = cut[c].todo]]
    BY <2>a, GoesOn, Zenon
  <2>. QED BY <1>1, <2>a, <2>2, <2>3, <2>4, CallGoesOn, Zenon
<1>4. CASE Goes(c, "rollback") /\ UNCHANGED draft
  BY <1>1, <1>4, RollbackNext
<1>. QED BY <1>2, <1>3, <1>4 DEF SealRow

LEMMA AuthenticateKeeps ==
  ASSUME CutoverInv, NEW c \in Callers, Authenticate(c)
  PROVE  CutoverInv'
<1>1. /\ cut[c].pc = "authenticate" /\ UNCHANGED <<db, draft, writer, keyring, edit, touched>>
      /\ AllSealed(draft, cut[c].id) /\ (AllLegacy(db) \/ AllSealed(db, cut[c].id))
      /\ draft \in Databases /\ cut[c].todo \in SUBSET Rows
  BY InvFacts, Zenon DEF Authenticate, CutoverInv, CallKnows, KnownAt, Calls
<1>2. CASE Goes(c, "commit")
  <2>2. KnownAt("commit", cut[c].id, cut[c].todo, draft', db)
    BY <1>1, Zenon DEF KnownAt
  <2>3. "commit" \in CallSteps \ {"idle", "inspect"}
    BY Zenon DEF CallSteps
  <2>4. cut' = [cut EXCEPT ![c] = [@ EXCEPT !.pc = "commit", !.todo = cut[c].todo]]
    BY <1>2, GoesOn, Zenon
  <2>. QED BY <1>1, <1>2, <2>2, <2>3, <2>4, CallGoesOn, Zenon
<1>3. CASE Goes(c, "rollback")
  BY <1>1, <1>3, RollbackNext, Zenon
<1>. QED BY <1>2, <1>3, Zenon DEF Authenticate

LEMMA BeginKeeps ==
  ASSUME CutoverInv, NEW c \in Callers, CutoverBegins(c)
  PROVE  CutoverInv'
<1>1. /\ cut[c].pc = "idle" /\ touched' = touched \ {c} /\ UNCHANGED <<db, keyring, edit>>
      /\ db \in Databases /\ cut \in [Callers -> Calls] /\ keyring \in [Callers -> Rings]
      /\ touched \subseteq Callers /\ (AllLegacy(db) \/ AllSealed(db, db.control))
  BY InvFacts, Zenon DEF CutoverBegins, CutoverInv, CutoverTypeOK
<1>a. OutcomeTold /\ \A d \in Callers : CallKnows(d)
  BY Zenon DEF CutoverInv, CutoverAtomic
<1>2. CASE /\ keyring[c].alive /\ writer = Nobody /\ writer' = c /\ draft' = db
           /\ cut' = [cut EXCEPT ![c] = [NoCut EXCEPT !.pc = "inspect", !.id = ActiveID(keyring[c])]]
  <2>1. ActiveID(keyring[c]) = keyring[c].active /\ keyring[c].active \in Keys
    BY <1>1, <1>2, Zenon DEF ActiveID, Rings
  <2>2. cut'[c] = [pc |-> "inspect", id |-> keyring[c].active, todo |-> {}, told |-> "nothing"]
    BY <1>1, <1>2, <2>1, Zenon DEF NoCut
  <2>3. cut'[c] \in Calls
    BY <2>1, <2>2 DEF Calls, CallSteps
  <2>4. \A d \in Callers : d # c => cut'[d] = cut[d] /\ cut[d].pc = "idle"
    BY <1>1, <1>2, OthersIdle, Zenon
  <2>5. CutoverTypeOK'
    <3>1. cut' \in [Callers -> Calls]
      BY <1>1, <1>2, <2>3
    <3>. QED BY <1>1, <1>2, <3>1, Zenon DEF CutoverTypeOK
  <2>6. \A d \in Callers : CallKnows(d)'
    <3>1. CallKnows(c)'
      BY <1>1, <1>2, <2>2, Zenon DEF CallKnows, KnownAt
    <3>2. \A d \in Callers : d # c => CallKnows(d)'
      BY <2>4, Zenon DEF CallKnows, KnownAt
    <3>. QED BY <3>1, <3>2, Zenon
  <2>7. OutcomeTold'
    <3>1. cut'[c].told = "nothing"
      BY <2>2
    <3>. QED BY <1>1, <1>a, <2>4, <3>1, Zenon DEF OutcomeTold
  <2>8. AllOrNothing' /\ NoOrphanTransaction'
    BY <1>1, <1>2, <2>2 DEF AllOrNothing, NoOrphanTransaction
  <2>9. RingsHoldTheirKey' /\ EditKnows'
    BY <1>1, Zenon DEF CutoverInv, RingsHoldTheirKey, EditKnows
  <2>. QED BY <2>5, <2>6, <2>7, <2>8, <2>9 DEF CutoverInv, CutoverAtomic
<1>3. CASE Returns(c, "error") /\ UNCHANGED <<draft, writer>>
  <2>1. /\ cut'[c] = [pc |-> "idle", id |-> NoKey, todo |-> {}, told |-> "error"]
        /\ \A d \in Callers : d # c => cut'[d] = cut[d]
    BY <1>1, <1>3, Zenon DEF Returns, NoCut
  <2>2. cut'[c] \in Calls
    BY <2>1 DEF Calls, CallSteps
  <2>3. cut' \in [Callers -> Calls]
    BY <1>1, <1>3, <2>2 DEF Returns
  <2>4. CutoverTypeOK'
    BY <1>1, <1>3, <2>3 DEF CutoverInv, CutoverTypeOK
  <2>5. \A d \in Callers : CallKnows(d)'
    <3>1. CallKnows(c)'
      BY <2>1 DEF CallKnows, KnownAt
    <3>2. \A d \in Callers : d # c => CallKnows(d)'
      BY <1>1, <1>3, <1>a, <2>1, Zenon DEF CallKnows
    <3>. QED BY <3>1, <3>2, Zenon
  <2>6. OutcomeTold'
    <3>1. cut'[c].told = "error" /\ c \notin touched'
      BY <1>1, <2>1
    <3>. QED BY <1>1, <1>a, <2>1, <3>1, Zenon DEF OutcomeTold
  <2>7. AllOrNothing' /\ NoOrphanTransaction'
    BY <1>1, <1>3, <2>1, Zenon DEF CutoverInv, CutoverAtomic, AllOrNothing, NoOrphanTransaction
  <2>8. RingsHoldTheirKey' /\ EditKnows'
    BY <1>1, Zenon DEF CutoverInv, RingsHoldTheirKey, EditKnows
  <2>. QED BY <2>4, <2>5, <2>6, <2>7, <2>8, Zenon DEF CutoverInv, CutoverAtomic
<1>. QED BY <1>2, <1>3, Zenon DEF CutoverBegins

(* The commit publishes a sealed draft; whether its error is reported or   *)
(* not, the database is the old one or the draft.                          *)
LEMMA CommitKeeps ==
  ASSUME CutoverInv, NEW c \in Callers, CommitSucceeds(c) \/ CommitFails(c)
  PROVE  CutoverInv'
<1>1. /\ cut[c].pc = "commit" /\ writer = c /\ UNCHANGED <<keyring, edit>>
      /\ AllSealed(draft, cut[c].id) /\ (AllLegacy(db) \/ AllSealed(db, cut[c].id))
      /\ draft \in Databases /\ db \in Databases /\ cut[c].id = keyring[c].active
      /\ writer' = Nobody /\ (AllLegacy(db) \/ AllSealed(db, db.control))
  BY InvFacts, Zenon DEF CommitSucceeds, CommitFails, EndsTransaction, CutoverInv, CallKnows, KnownAt
<1>2. AllSealed(draft, draft.control)
  BY <1>1, Zenon DEF AllSealed
<1>3. \A k : AllSealed(db, k) => AllSealed(draft, k)
  BY <1>1, WhichForm, Zenon
<1>4. CASE CommitSucceeds(c)
  <2>1. /\ db' = draft /\ touched' \subseteq touched \cup {c}
        /\ cut' = [cut EXCEPT ![c] = [NoCut EXCEPT !.told = "done"]]
    BY <1>4, Zenon DEF CommitSucceeds, Touches, Returns
  <2>. QED BY <1>1, <1>2, <1>3, <2>1, CallReturns, Zenon
<1>5. CASE CommitFails(c)
  <2>1. /\ db' \in {db, draft} /\ touched' \subseteq touched \cup {c}
        /\ cut' = [cut EXCEPT ![c] = [NoCut EXCEPT !.told = "unknown"]]
    BY <1>5, Zenon DEF CommitFails, Touches, Returns
  <2>2. /\ db' \in Databases /\ (AllLegacy(db') \/ AllSealed(db', db'.control))
        /\ \A k : AllSealed(db, k) => AllSealed(db', k)
    BY <1>1, <1>2, <1>3, <2>1
  <2>. QED BY <1>1, <2>1, <2>2, CallReturns, Zenon
<1>. QED BY <1>4, <1>5, Zenon

LEMMA RollbackKeeps ==
  ASSUME CutoverInv, NEW c \in Callers, RollbackSucceeds(c) \/ RollbackFails(c)
  PROVE  CutoverInv'
<1>1. /\ cut[c].pc = "rollback" /\ writer = c /\ c \notin touched /\ UNCHANGED <<db, keyring, edit, touched>>
      /\ db \in Databases /\ writer' = Nobody /\ (AllLegacy(db) \/ AllSealed(db, db.control))
  BY InvFacts, Zenon DEF RollbackSucceeds, RollbackFails, EndsTransaction
<1>2. PICK told \in {"error", "unknown"} : cut' = [cut EXCEPT ![c] = [NoCut EXCEPT !.told = told]]
  BY Zenon DEF RollbackSucceeds, RollbackFails, Returns
<1>. QED BY <1>1, <1>2, CallReturns, Zenon

(* A crash leaves the database and forgets every call. *)
LEMMA CrashKeeps ==
  ASSUME CutoverInv, CutoverCrash
  PROVE  CutoverInv'
<1>1. PICK k \in Keys : keyring' = [c \in Callers |-> NewKeyring(k)]
  BY Zenon DEF CutoverCrash
<1>2. /\ writer' = Nobody /\ cut' = [c \in Callers |-> NoCut] /\ touched' = {}
      /\ edit' = NoEdit /\ UNCHANGED db
  BY Zenon DEF CutoverCrash, EndsTransaction
<1>3. NoCut \in Calls /\ NewKeyring(k) \in Rings
  BY Zenon DEF NoCut, Calls, CallSteps, NewKeyring, Rings
<1>4. CutoverTypeOK' /\ RingsHoldTheirKey'
  BY <1>1, <1>2, <1>3, Zenon DEF CutoverInv, CutoverTypeOK, RingsHoldTheirKey, NewKeyring
<1>5. \A c \in Callers : CallKnows(c)'
  BY <1>2, Zenon DEF CallKnows, KnownAt, NoCut
<1>6. EditKnows'
  BY <1>2, Zenon DEF EditKnows, NoEdit
<1>7. CutoverAtomic'
  BY <1>2, Zenon DEF CutoverInv, CutoverAtomic, AllOrNothing, OutcomeTold, NoOrphanTransaction, NoCut
<1>. QED BY <1>4, <1>5, <1>6, <1>7, Zenon DEF CutoverInv

----------------------------------------------------------------------------
(* The expand-only start adds columns, and only to a legacy database. *)
LEMMA StartKeeps ==
  ASSUME CutoverInv, ServiceStarts
  PROVE  CutoverInv'
<1>1. /\ writer = Nobody /\ LegacyOnly(db) /\ db' \in {db, Expanded(db)}
      /\ UNCHANGED <<writer, keyring, cut, edit, touched>>
  BY Zenon DEF ServiceStarts, DirectoryRefused, ArtifactRefused
<1>2. AllLegacy(db)
  BY <1>1, InvFacts, WhichForm, Zenon DEF LegacyOnly
<1>3. db' \in Databases /\ AllLegacy(db')
  <2>1. db \in Databases
    BY InvFacts, Zenon
  <2>2. Expanded(db) \in Databases /\ AllLegacy(Expanded(db))
    BY <1>2, <2>1, TablesAdded, Zenon
  <2>. QED BY <1>1, <1>2, <2>1, <2>2
<1>4. EditKnows'
  BY <1>1, Zenon DEF CutoverInv, EditKnows
<1>. QED BY <1>1, <1>2, <1>3, <1>4, LegacyWritten

(* A contained write that did not find its snapshot current is refused. *)
LEMMA EditKeeps ==
  ASSUME CutoverInv, EditWrites
  PROVE  CutoverInv'
<1>1. edit.pc = "write" /\ edit' = NoEdit /\ UNCHANGED <<draft, writer, keyring, cut, touched>>
  BY Zenon DEF EditWrites
<1>2. EditKnows'
  BY <1>1, Zenon DEF EditKnows, NoEdit
<1>3. CASE writer = Nobody /\ db \in edit.seen /\ db' \in Edited(edit.op, db, edit.row)
  <2>1. /\ edit.row \in Rows /\ edit.op \in {"create", "mounted", "delete"}
        /\ LegacyOnly(db)
    BY <1>1, <1>3, Zenon DEF CutoverInv, EditKnows
  <2>2. db \in Databases /\ AllLegacy(db)
    BY <2>1, InvFacts, WhichForm, Zenon DEF LegacyOnly
  <2>3. db' \in Databases /\ AllLegacy(db')
    BY <1>3, <2>1, <2>2, EditsStayLegacy, Zenon
  <2>. QED BY <1>1, <1>2, <1>3, <2>2, <2>3, LegacyWritten, Zenon
<1>4. CASE UNCHANGED db
  <2>1. CutoverTypeOK' /\ RingsHoldTheirKey'
    BY <1>1, <1>4, Zenon DEF CutoverInv, CutoverTypeOK, RingsHoldTheirKey
  <2>2. \A c \in Callers : CallKnows(c)'
    BY <1>1, <1>4, Zenon DEF CutoverInv, CallKnows
  <2>3. CutoverAtomic'
    BY <1>1, <1>4, Zenon DEF CutoverInv, CutoverAtomic, AllOrNothing, OutcomeTold, NoOrphanTransaction
  <2>. QED BY <1>2, <2>1, <2>2, <2>3, Zenon DEF CutoverInv
<1>. QED BY <1>3, <1>4, Zenon DEF EditWrites

LEMMA EditBeginKeeps ==
  ASSUME CutoverInv, NEW op \in {"create", "mounted", "delete"}, NEW r \in Rows, EditBegins(op, r)
  PROVE  CutoverInv'
<1>1. /\ LegacyOnly(db) /\ edit' = [pc |-> "write", row |-> r, op |-> op, seen |-> {db}]
      /\ UNCHANGED <<db, draft, writer, keyring, cut, touched>>
  BY Zenon DEF EditBegins
<1>2. EditKnows'
  BY <1>1, Zenon DEF EditKnows
<1>3. CutoverTypeOK' /\ RingsHoldTheirKey'
  BY <1>1, Zenon DEF CutoverInv, CutoverTypeOK, RingsHoldTheirKey
<1>4. \A c \in Callers : CallKnows(c)'
  BY <1>1, Zenon DEF CutoverInv, CallKnows
<1>5. CutoverAtomic'
  BY <1>1, Zenon DEF CutoverInv, CutoverAtomic, AllOrNothing, OutcomeTold, NoOrphanTransaction
<1>. QED BY <1>2, <1>3, <1>4, <1>5 DEF CutoverInv

(* The initial states satisfy the invariant. *)
LEMMA CutoverInvInit == CutoverInit => CutoverInv
<1>. SUFFICES ASSUME CutoverInit PROVE CutoverInv
  BY Zenon
<1>1. PICK schema \in {"absent", "old", "partial", "expanded"},
           flaws \in {{}} \cup {{f} : f \in Flaws}, rows \in [Rows -> InitialRows] :
         db = [schema |-> schema, flaws |-> flaws, controlTable |-> FALSE, control |-> NoKey,
               marker |-> "none", rows |-> rows]
  BY Zenon DEF CutoverInit
<1>2. \A w \in InitialRows : w \in RowRecords /\ (w.kind # "absent" => w.kind = "legacy" /\ w.pw)
  <2>1. Absent \in RowRecords /\ Absent.kind = "absent"
    BY Zenon DEF Absent, RowRecords
  <2>2. ASSUME NEW port \in {"", "139", "445"}, NEW sound \in BOOLEAN
        PROVE  /\ LegacyRow(port, sound) \in RowRecords
               /\ LegacyRow(port, sound).kind = "legacy" /\ LegacyRow(port, sound).pw
    BY Zenon DEF LegacyRow, RowRecords
  <2>3. InitialRows = {Absent, LegacyRow("", TRUE), LegacyRow("139", TRUE), LegacyRow("445", FALSE)}
    BY Zenon DEF InitialRows
  <2>. QED BY <2>1, <2>2, <2>3, Zenon
<1>3. flaws \in SUBSET Flaws
  BY Zenon
<1>4. rows \in [Rows -> RowRecords]
  BY <1>2, Zenon
<1>5. db \in Databases
  BY <1>1, <1>3, <1>4, Zenon DEF Databases
<1>6. AllLegacy(db)
  BY <1>1, <1>2, Zenon DEF AllLegacy, Present
<1>7. PICK k \in Keys : keyring = [c \in Callers |-> NewKeyring(k)]
  BY Zenon DEF CutoverInit
<1>8. NoCut \in Calls /\ NewKeyring(k) \in Rings
  BY Zenon DEF NoCut, Calls, CallSteps, NewKeyring, Rings
<1>9. writer = Nobody /\ cut = [c \in Callers |-> NoCut] /\ touched = {} /\ edit = NoEdit
  BY Zenon DEF CutoverInit
<1>10. CutoverTypeOK /\ RingsHoldTheirKey
  BY <1>5, <1>7, <1>8, <1>9, Zenon DEF CutoverTypeOK, RingsHoldTheirKey, NewKeyring
<1>11. EditKnows /\ \A c \in Callers : CallKnows(c)
  <2>1. \A c \in Callers : cut[c].pc = "idle"
    BY <1>9, Zenon DEF NoCut
  <2>. QED BY <1>9, <2>1, Zenon DEF EditKnows, NoEdit, CallKnows, KnownAt
<1>12. CutoverAtomic
  <2>1. \A c \in Callers : cut[c].told = "nothing"
    BY <1>9, Zenon DEF NoCut
  <2>. QED BY <1>6, <1>9, <2>1, Zenon DEF CutoverAtomic, AllOrNothing, OutcomeTold, NoOrphanTransaction
<1>. QED BY <1>10, <1>11, <1>12, Zenon DEF CutoverInv

LEMMA CutoverInvStep == CutoverInv /\ [CutoverNext]_cutoverVars => CutoverInv'
<1>. SUFFICES ASSUME CutoverInv, [CutoverNext]_cutoverVars PROVE CutoverInv'
  BY Zenon
<1>1. CASE ServiceStarts
  BY <1>1, StartKeeps, Zenon
<1>2. CASE EditWrites
  BY <1>2, EditKeeps, Zenon
<1>3. CASE CutoverCrash
  BY <1>3, CrashKeeps, Zenon
<1>4. ASSUME NEW op \in {"create", "mounted", "delete"}, NEW r \in Rows, EditBegins(op, r)
      PROVE  CutoverInv'
  BY <1>4, EditBeginKeeps, Zenon
<1>5. ASSUME NEW c \in Callers, Cutover(c) PROVE CutoverInv'
  BY <1>5, BeginKeeps, InspectKeeps, MarkKeeps, SealKeeps, AuthenticateKeeps, CommitKeeps, RollbackKeeps
     DEF Cutover
<1>6. ASSUME NEW c \in Callers, Rotate(c) \/ Destroy(c) PROVE CutoverInv'
  BY <1>6, RingChanges, Zenon
<1>7. CASE UNCHANGED cutoverVars
  <2>1. UNCHANGED <<db, draft, writer, keyring, cut, edit, touched>>
    BY <1>7 DEF cutoverVars
  <2>. QED BY <2>1, Zenon DEF CutoverInv, CutoverTypeOK, RingsHoldTheirKey, EditKnows, CallKnows,
       CutoverAtomic, AllOrNothing, OutcomeTold, NoOrphanTransaction
<1>. QED BY <1>1, <1>2, <1>3, <1>4, <1>5, <1>6, <1>7 DEF CutoverNext

(* For any rows, keys, callers and failures: the durable database is wholly *)
(* legacy or wholly sealed under one key after every step and every crash,  *)
(* success and plain errors are told truthfully, and no write transaction   *)
(* outlives its call (cutoverSMBCredentials).                               *)
THEOREM CutoverIsAtomic == CutoverSpec => []CutoverAtomic
<1>1. CutoverInv => CutoverAtomic
  BY Zenon DEF CutoverInv
<1>. QED
  BY CutoverInvInit, CutoverInvStep, <1>1, PTL DEF CutoverSpec

(***************************************************************************)
(* The verifier: the portal loads the version that its path held at the    *)
(* end of the load.                                                        *)
(***************************************************************************)
FileRecords == [content : Contents, stamp : Nat, links : {1, 2}, private : BOOLEAN]
LoaderPcs == {"parent", "pin", "reopen", "acl", "read", "after", "again", "final", "loaded", "failed"}
Loaders == [pc : LoaderPcs, pin : Files \cup {"none"}, seen : (Files \cup {"none"}) \X Nat,
            value : Contents \cup {"none"}]
Pinned == {"reopen", "acl", "read", "after", "again", "final", "loaded"}
HasRead == {"after", "again", "final", "loaded"}

(* The pinned file is at the stamp that was seen or past it, and at that   *)
(* stamp it still holds the value that was read.                           *)
PinHolds ==
  /\ loader.pc \in Pinned => /\ loader.pin \in Files /\ loader.seen[1] = loader.pin
                             /\ loader.seen[2] <= disk[loader.pin].stamp
  /\ loader.pc \in HasRead =>
       /\ loader.value # "malformed"
       /\ loader.seen[2] = disk[loader.pin].stamp => disk[loader.pin].content = loader.value

LoadInv ==
  /\ disk \in [Files -> FileRecords] /\ path \in Files /\ loader \in Loaders
  /\ PinHolds
  /\ VerifierCurrent

----------------------------------------------------------------------------
(* A failed load starts over with nothing, and keeps the invariant. *)
LEMMA FailsKeeps ==
  ASSUME LoadInv, Fails, UNCHANGED fileVars
  PROVE  LoadInv'
<1>1. loader' = [pc |-> "failed", pin |-> "none", seen |-> <<"none", 0>>, value |-> "none"]
  BY Zenon DEF Fails, Fresh
<1>2. loader' \in Loaders
  BY <1>1, Zenon DEF Loaders, LoaderPcs
<1>3. loader'.pc = "failed"
  BY <1>1, Zenon
<1>. QED BY <1>2, <1>3, Zenon DEF LoadInv, fileVars, PinHolds, VerifierCurrent, Pinned, HasRead

(* A check that passes changes the loader's place alone.  It may enter     *)
(* "final" only with the value that the path held.                         *)
LEMMA PassesKeeps ==
  ASSUME LoadInv, NEW pc \in LoaderPcs, Passes(pc), UNCHANGED fileVars,
         pc \in Pinned => loader.pc \in Pinned,
         pc \in HasRead => loader.pc \in HasRead,
         pc \in {"final", "loaded"} => loader.value = current' /\ current' # "malformed"
  PROVE  LoadInv'
<1>1. /\ loader' \in Loaders /\ loader'.pc = pc /\ loader'.pin = loader.pin
      /\ loader'.seen = loader.seen /\ loader'.value = loader.value
  BY Zenon DEF LoadInv, Passes, Loaders
<1>2. PinHolds'
  BY <1>1, Zenon DEF LoadInv, PinHolds, fileVars
<1>3. VerifierCurrent'
  BY <1>1, Zenon DEF VerifierCurrent
<1>. QED BY <1>1, <1>2, <1>3, Zenon DEF LoadInv, fileVars

(* The checks in the middle of the load. *)
LEMMA CheckKeeps ==
  ASSUME LoadInv, NEW ok, NEW pc \in LoaderPcs, CheckThen(ok, pc),
         loader.pc \in Pinned, pc \in HasRead => loader.pc \in HasRead,
         pc \in {"final", "loaded"} => loader.pc \in {"final", "loaded"}
  PROVE  LoadInv'
<1>1. CASE Passes(pc)
  BY <1>1, PassesKeeps, Zenon DEF CheckThen, LoadInv, VerifierCurrent
<1>2. CASE Fails
  BY <1>2, FailsKeeps, Zenon DEF CheckThen
<1>. QED BY <1>1, <1>2, Zenon DEF CheckThen

(* Every change of a file advances its stamp, so that a value read before  *)
(* is not taken for the file's content any more.                           *)
LEMMA TouchKeeps ==
  ASSUME LoadInv, NEW i \in Files, NEW f \in FileRecords, f.stamp = disk[i].stamp, Touch(i, f)
  PROVE  LoadInv'
<1>. DEFINE g == [f EXCEPT !.stamp = @ + 1]
<1>1. g \in FileRecords /\ g.stamp = disk[i].stamp + 1
  BY DEF FileRecords
<1>. HIDE DEF g
<1>2. disk \in [Files -> FileRecords] /\ disk' = [disk EXCEPT ![i] = g]
  BY Zenon DEF LoadInv, Touch, g
<1>3. /\ disk' \in [Files -> FileRecords] /\ disk'[i] = g
      /\ \A j \in Files : j # i => disk'[j] = disk[j]
  BY <1>1, <1>2, Zenon
<1>4. \A j \in Files : disk[j].stamp \in Nat /\ disk'[j].stamp \in Nat
  BY <1>2, <1>3, Zenon DEF FileRecords
<1>5. UNCHANGED <<path, loader, current>>
  BY Zenon DEF Touch
<1>6. loader.pc \in Pinned => loader.seen[2] \in Nat
  BY Zenon DEF LoadInv, Loaders
<1>7. PinHolds'
  <2>1. CASE loader.pin = i
    <3>1. PinHolds /\ HasRead \subseteq Pinned
      BY Zenon DEF LoadInv, Pinned, HasRead
    <3>2. /\ disk[i].stamp \in Nat /\ disk'[loader.pin].stamp = disk[loader.pin].stamp + 1
      BY <1>1, <1>3, <1>4, <2>1
    <3>. QED BY <1>5, <1>6, <2>1, <3>1, <3>2 DEF PinHolds
  <2>2. CASE loader.pin # i
    BY <1>3, <1>5, <2>2, Zenon DEF LoadInv, PinHolds, Pinned, HasRead
  <2>. QED BY <2>1, <2>2, Zenon
<1>. QED BY <1>3, <1>5, <1>7, Zenon DEF LoadInv, VerifierCurrent

LEMMA LoadInvInit == VerifierInit => LoadInv
<1>. SUFFICES ASSUME VerifierInit PROVE LoadInv
  BY Zenon
<1>. DEFINE FirstRecords == [content : Contents, stamp : {0}, links : {1}, private : {TRUE}]
<1>1. disk \in [Files -> FileRecords]
  <2>1. ASSUME NEW r \in FirstRecords PROVE r \in FileRecords
    <3>1. {TRUE} \subseteq BOOLEAN /\ {1} \subseteq {1, 2}
      BY Zenon
    <3>2. {0} \subseteq Nat
      OBVIOUS
    <3>3. [content : Contents, stamp : {0}, links : {1}, private : {TRUE}]
            \subseteq [content : Contents, stamp : Nat, links : {1, 2}, private : BOOLEAN]
      BY <3>1, <3>2, Zenon
    <3>. QED BY <3>3, Zenon DEF FileRecords
  <2>2. disk \in [Files -> FirstRecords]
    BY Zenon DEF VerifierInit
  <2>. HIDE DEF FirstRecords
  <2>. QED BY <2>1, <2>2, Zenon
<1>2. loader = [pc |-> "parent", pin |-> "none", seen |-> <<"none", 0>>, value |-> "none"] /\ path \in Files
  BY Zenon DEF VerifierInit, Fresh
<1>3. loader \in Loaders /\ loader.pc = "parent"
  BY <1>2, Zenon DEF Loaders, LoaderPcs
<1>. QED BY <1>1, <1>2, <1>3, Zenon DEF LoadInv, PinHolds, VerifierCurrent, Pinned, HasRead

LEMMA LoadInvStep == LoadInv /\ [VerifierNext]_verifierVars => LoadInv'
<1>. SUFFICES ASSUME LoadInv, [VerifierNext]_verifierVars PROVE LoadInv'
  BY Zenon
<1>. USE DEF LoaderAt
<1>1. CASE ParentChecked
  <2>1. "pin" \in LoaderPcs /\ "pin" \notin Pinned \cup HasRead
    BY Zenon DEF LoaderPcs, Pinned, HasRead
  <2>. QED BY <1>1, <2>1, PassesKeeps, FailsKeeps, Zenon DEF ParentChecked
<1>2. CASE PinPath
  <2>1. CASE DescriptorValid(path)
    <3>1. loader' = [loader EXCEPT !.pc = "reopen", !.pin = path, !.seen = <<path, disk[path].stamp>>]
      BY <1>2, <2>1, Zenon DEF PinPath, Metadata
    <3>2. disk[path].stamp \in Nat /\ path \in Files
      BY Zenon DEF LoadInv, FileRecords
    <3>3. /\ loader' \in Loaders /\ loader'.pc = "reopen" /\ loader'.pin = path
          /\ loader'.seen = <<path, disk[path].stamp>>
      BY <3>1, <3>2, Zenon DEF LoadInv, Loaders, LoaderPcs
    <3>4. PinHolds' /\ VerifierCurrent'
      BY <1>2, <3>2, <3>3 DEF PinPath, fileVars, PinHolds, VerifierCurrent, HasRead
    <3>. QED BY <1>2, <3>3, <3>4, Zenon DEF LoadInv, PinPath, fileVars
  <2>2. CASE ~DescriptorValid(path)
    BY <1>2, <2>2, FailsKeeps DEF PinPath, Fails
  <2>. QED BY <2>1, <2>2, Zenon
<1>3. CASE Reopen
  BY <1>3, CheckKeeps, Zenon DEF Reopen, LoaderPcs, Pinned, HasRead
<1>4. CASE DescriptorValidated
  BY <1>4, CheckKeeps, Zenon DEF DescriptorValidated, LoaderPcs, Pinned, HasRead
<1>5. CASE ReadVerifier
  <2>1. loader.pin \in Files /\ disk[loader.pin].content \in Contents
    BY <1>5, Zenon DEF ReadVerifier, LoadInv, PinHolds, Pinned, FileRecords
  <2>2. CASE disk[loader.pin].content = "malformed"
    BY <1>5, <2>2, FailsKeeps, Zenon DEF ReadVerifier, Fails
  <2>3. CASE disk[loader.pin].content # "malformed"
    <3>1. loader' = [loader EXCEPT !.pc = "after", !.value = disk[loader.pin].content]
      BY <1>5, <2>3, Zenon DEF ReadVerifier
    <3>2. /\ loader' \in Loaders /\ loader'.pc = "after" /\ loader'.pin = loader.pin
          /\ loader'.seen = loader.seen /\ loader'.value = disk[loader.pin].content
      BY <2>1, <3>1, Zenon DEF LoadInv, Loaders, LoaderPcs
    <3>3. PinHolds' /\ VerifierCurrent'
      BY <1>5, <2>3, <3>2, Zenon DEF LoadInv, ReadVerifier, fileVars, PinHolds, VerifierCurrent,
         Pinned, HasRead
    <3>. QED BY <1>5, <3>2, <3>3 DEF LoadInv, ReadVerifier, fileVars
  <2>. QED BY <2>2, <2>3, Zenon
<1>6. CASE AfterRead
  BY <1>6, CheckKeeps, Zenon DEF AfterRead, LoaderPcs, Pinned, HasRead
<1>7. CASE RevalidatePath
  <2>1. CASE PathStillLeads /\ Passes("final")
    <3>1. path = loader.pin /\ disk[path].stamp = loader.seen[2]
      BY <1>7, <2>1 DEF RevalidatePath, PathStillLeads, SameMetadata, Metadata, LoadInv, PinHolds, Pinned
    <3>2. loader.value = current' /\ current' # "malformed"
      BY <1>7, <3>1, Zenon DEF RevalidatePath, LoadInv, PinHolds, HasRead
    <3>3. "final" \in LoaderPcs /\ "again" \in Pinned /\ "again" \in HasRead
      BY Zenon DEF LoaderPcs, Pinned, HasRead
    <3>. QED BY <1>7, <2>1, <3>2, <3>3, PassesKeeps DEF RevalidatePath
  <2>2. CASE Fails
    BY <1>7, <2>2, FailsKeeps, Zenon DEF RevalidatePath
  <2>. QED BY <1>7, <2>1, <2>2, Zenon DEF RevalidatePath
<1>8. CASE FinalDescriptor
  BY <1>8, CheckKeeps, Zenon DEF FinalDescriptor, LoaderPcs, Pinned, HasRead
<1>9. ASSUME NEW i \in Files, Link(i) \/ Chmod(i) \/ \E c \in Contents : Edit(i, c)
      PROVE  LoadInv'
  <2>1. disk[i] \in FileRecords
    BY Zenon DEF LoadInv
  <2>2. CASE Link(i)
    <3>1. [disk[i] EXCEPT !.links = 3 - @] \in FileRecords
      BY <2>1 DEF FileRecords
    <3>2. [disk[i] EXCEPT !.links = 3 - @].stamp = disk[i].stamp
      BY <2>1, Zenon DEF FileRecords
    <3>. QED BY <2>2, <3>1, <3>2, TouchKeeps, Zenon DEF Link
  <2>3. CASE Chmod(i)
    <3>1. [disk[i] EXCEPT !.private = ~@] \in FileRecords
      BY <2>1, Zenon DEF FileRecords
    <3>2. [disk[i] EXCEPT !.private = ~@].stamp = disk[i].stamp
      BY <2>1, Zenon DEF FileRecords
    <3>. QED BY <2>3, <3>1, <3>2, TouchKeeps, Zenon DEF Chmod
  <2>4. ASSUME NEW c \in Contents, Edit(i, c) PROVE LoadInv'
    <3>1. [disk[i] EXCEPT !.content = c] \in FileRecords
      BY <2>1, Zenon DEF FileRecords
    <3>2. [disk[i] EXCEPT !.content = c].stamp = disk[i].stamp
      BY <2>1, Zenon DEF FileRecords
    <3>. QED BY <2>4, <3>1, <3>2, TouchKeeps, Zenon DEF Edit
  <2>. QED BY <1>9, <2>2, <2>3, <2>4
<1>10. ASSUME NEW i \in Files, Repoint(i) PROVE LoadInv'
  BY <1>10, Zenon DEF Repoint, LoadInv, PinHolds, VerifierCurrent
<1>11. CASE UNCHANGED verifierVars
  BY <1>11 DEF verifierVars, LoadInv, PinHolds, VerifierCurrent
<1>. QED
  BY <1>1, <1>2, <1>3, <1>4, <1>5, <1>6, <1>7, <1>8, <1>9, <1>10, <1>11, Zenon DEF VerifierNext

(* For any files and any number of edits, replacements and changes of mode  *)
(* during the load: the verifier that is loaded is the whole version the    *)
(* configured path held when it was pinned again (revalidateVerifierPath).  *)
THEOREM VerifierIsCurrent == VerifierSpec => []VerifierCurrent
<1>1. LoadInv => VerifierCurrent
  BY Zenon DEF LoadInv
<1>. QED
  BY LoadInvInit, LoadInvStep, <1>1, PTL DEF VerifierSpec

=============================================================================
