------------------------------ MODULE Services ------------------------------
(***************************************************************************)
(* The services around the ledger and the agent's policy, which share no   *)
(* state with each other: each behaviour is one of one of them, chosen by  *)
(* `focus`, and the others stay in their initial states.  The accounts and *)
(* the policy are extended, the other services are instances.              *)
(***************************************************************************)
EXTENDS UserAccounts, TradePolicy

CONSTANTS
  Messages, Malformed, MaxFaults,                         \* of the queue
  Clients, Channels, MaxHistory, MaxSent,                 \* of the notifications
  CacheTimes, ReadTime, MaxReads, MaxClock,               \* of the analytics
  CachedRequests, ResponseTTL, SlowStore, MaxSeconds,     \* of the response cache
  RestRequests, Admins, Keys, Farm, Warehouse, Cert, MintTerm, MaxEvents,
                                                          \* of the REST router
  Pages, Mobiles, MaxLoads,                               \* of the ledger's readers
  Devices, MonitoredProducts, Readings, Timestamps, MaxReadings, MaxMs   \* of the devices

VARIABLES
  focus,
  queue, tasks, link, dead, published, handled, lost, faults,
  clients, history, received, narrowed, behind,
  cache, lastUpdate, cacheTTL, calls, clock,
  entry, cached, answered, seconds,
  ledger, events, request, open,
  server, contract, page, mobile, shared, own, loads, failures,
  records, data, ms

Queue == INSTANCE MessageQueue

Notifications == INSTANCE NotificationService

Analytics == INSTANCE AnalyticsCache WITH
  TTLs <- CacheTimes, MaxCalls <- MaxReads, MaxTime <- MaxClock,
  now <- clock

Responses == INSTANCE ResponseCache WITH
  Requests <- CachedRequests, TTL <- ResponseTTL, Slow <- SlowStore,
  MaxTime <- MaxSeconds, request <- cached, now <- seconds

Gateway == INSTANCE LedgerGateway WITH Requests <- RestRequests

Readers == INSTANCE LedgerReaders

IoT == INSTANCE IoTDevices WITH
  Products <- MonitoredProducts, MaxTime <- MaxMs, ledger <- records, now <- ms

\* What the theorems assume, part by part.
ASSUME ServicesAssumption ==
  /\ AccountsAssumption
  /\ Queue!QueueAssumption
  /\ Notifications!ChannelsAssumption
  /\ Analytics!TimesAssumption
  /\ Responses!TimesAssumption
  /\ Gateway!SC!ChaincodeAssumption
  /\ Readers!ReadersAssumption
  /\ IoT!IoTAssumption

Parts == {"accounts", "queue", "notifications", "analytics",
          "responses", "gateway", "readers", "iot", "policy"}

queueVars == <<queue, tasks, link, dead, published, handled, lost, faults>>
notificationsVars == <<clients, history, received, narrowed, behind>>
analyticsVars == <<cache, lastUpdate, cacheTTL, calls, clock>>
responsesVars == <<entry, cached, answered, seconds>>
gatewayVars == <<ledger, events, request, open>>
readersVars == <<server, contract, page, mobile, shared, own, loads, failures>>
iotVars == <<records, data, ms>>
servicesVars == <<focus, vars, queueVars, notificationsVars, analyticsVars,
                  responsesVars, gatewayVars, readersVars, iotVars, marketVars>>

ServicesInit ==
  /\ focus \in Parts
  /\ Init /\ Queue!Init /\ Notifications!Init /\ Analytics!Init
  /\ Responses!Init /\ Gateway!Init /\ Readers!Init /\ IoT!Init
  /\ MarketInit
  \* What does not matter for the focus is fixed.
  /\ focus = "analytics" \/ cacheTTL = CHOOSE ttl \in CacheTimes : TRUE
  /\ focus = "policy" \/ book = CHOOSE b \in Books : TRUE

Frame ==
  /\ UNCHANGED focus
  /\ focus # "accounts" => UNCHANGED vars
  /\ focus # "queue" => UNCHANGED queueVars
  /\ focus # "notifications" => UNCHANGED notificationsVars
  /\ focus # "analytics" => UNCHANGED analyticsVars
  /\ focus # "responses" => UNCHANGED responsesVars
  /\ focus # "gateway" => UNCHANGED gatewayVars
  /\ focus # "readers" => UNCHANGED readersVars
  /\ focus # "iot" => UNCHANGED iotVars
  /\ focus # "policy" => UNCHANGED marketVars

AccountsStep == focus = "accounts" /\ Next /\ Frame
QueueStep == focus = "queue" /\ Queue!Next /\ Frame
NotificationsStep == focus = "notifications" /\ Notifications!Next /\ Frame
AnalyticsStep == focus = "analytics" /\ Analytics!Next /\ Frame
ResponsesStep == focus = "responses" /\ Responses!Next /\ Frame
GatewayStep == focus = "gateway" /\ Gateway!Next /\ Frame
ReadersStep == focus = "readers" /\ Readers!Next /\ Frame
IoTStep == focus = "iot" /\ IoT!Next /\ Frame
PolicyStep == focus = "policy" /\ (Tick \/ Move) /\ Frame

ServicesNext ==
  \/ AccountsStep \/ QueueStep \/ NotificationsStep \/ AnalyticsStep
  \/ ResponsesStep \/ GatewayStep \/ ReadersStep \/ IoTStep \/ PolicyStep

ServicesSpec == ServicesInit /\ [][ServicesNext]_servicesVars /\ Queue!Fairness

-----------------------------------------------------------------------------
(* The properties of the services, stated in their modules; those of the   *)
(* accounts are SessionsKept and LockCountsFailures, and the policy's is   *)
(* ApprovedIsAccepted.                                                     *)

\* Type invariant.
ServicesTypeOK ==
  /\ TypeOK /\ Queue!TypeOK /\ Notifications!TypeOK /\ Analytics!TypeOK
  /\ Responses!TypeOK /\ Gateway!TypeOK /\ Readers!TypeOK /\ IoT!TypeOK

\* A message the broker took is at the broker, handled, or dead-lettered after
\* four tries because it never could be handled.
MessagesAccounted == Queue!NoMessageLost /\ Queue!OnlyHopelessDeadLettered

\* Every published message is settled, unless the worker stops consuming.
SettledOrSilent == Queue!SettledOrSilent

\* History and broadcasts give an open client every notification, in order, once,
\* unless it was ever connected behind one whose channels are no array.
ClientsMissNothing == Notifications!ClientsMissNothing

\* Cached batch metrics are younger than the cache time and one read, and a
\* cached response than its time to live and the slowest store.
CachesFresh == Analytics!BatchFresh /\ Responses!StaleOnlyForTTL

\* The answer to a write tells what became of it, unless it is "unavailable".
AnswersTruthful == Gateway!AnswersTruthful

\* A request of the REST router that was answered has closed its gateway, and
\* pages and mobile requests leave a bounded number of gateways open.
GatewaysClosed == Gateway!GatewaysReleased /\ Readers!GatewaysBounded

\* Devices, products and stored readings agree, and the analysis of the readings
\* with the alerts they raised.
ReadingsAccounted == IoT!ReadingsAccounted /\ IoT!AnalysisAgreesWithAlerts
=============================================================================
