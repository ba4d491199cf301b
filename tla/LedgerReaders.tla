---------------------------- MODULE LedgerReaders ----------------------------
(***************************************************************************)
(* Gateways to the ledger that one server process opens for reading.  The  *)
(* pages of app.js share one, in three variables set together; a page that *)
(* finds none opens it, and others may do so meanwhile.  Two endpoints of  *)
(* mobile-api.js open one for every request and close it when the query    *)
(* succeeded.                                                              *)
(***************************************************************************)
EXTENDS Integers, FiniteSets

CONSTANTS
  Pages,       \* page requests that may be in progress together
  Mobiles,     \* mobile requests that may be in progress together
  MaxLoads     \* bound: requests of pages, and of mobile endpoints that fail

VARIABLES
  server,      \* the process: see Servers
  contract,    \* whether the shared gateway, network and contract are set
  page, mobile,   \* requests in progress
  shared, own, \* gateways open that pages, and mobile requests, connected
  loads, failures   \* pages begun, mobile requests failed after connecting

vars == <<server, contract, page, mobile, shared, own, loads, failures>>

\* There is at least one page, as there is in a server that has pages at all.
ReadersAssumption ==
  /\ IsFiniteSet(Pages) /\ Pages # {} /\ IsFiniteSet(Mobiles)
  /\ MaxLoads \in Nat

Servers == {"down", "starting", "up", "stopping"}
PageSteps == {"idle", "connect", "query"}
Goes(p, step) == page' = [page EXCEPT ![p] = step]
MobileGoes(m, step) == mobile' = [mobile EXCEPT ![m] = step]

OwnUnchanged == UNCHANGED <<mobile, own, failures>>
SharedUnchanged == UNCHANGED <<server, contract, page, shared, loads>>

\* connectToFabric of app.js ends.  A gateway that was set is not closed.
Connected == contract' = TRUE /\ shared' = shared + 1
NotConnected == UNCHANGED <<contract, shared>>

\* startServer listens when the first connection was tried, or failed.
StartServer ==
  /\ \/ server = "down" /\ server' = "starting" /\ UNCHANGED <<contract, shared>>
     \/ server = "starting" /\ server' = "up" /\ (Connected \/ NotConnected)
  /\ UNCHANGED <<page, loads>> /\ OwnUnchanged

\* stopServer, from a signal: it closes the gateway that is set, stops the
\* bridge while requests are still taken, waits for those in progress, and the
\* process exits with all it holds.
StopServer ==
  /\ \/ /\ server \in {"starting", "up"} /\ server' = "stopping" /\ contract' = FALSE
        /\ shared' = IF contract THEN shared - 1 ELSE shared
        /\ UNCHANGED <<page, mobile, own, loads, failures>>
     \/ /\ server = "stopping" /\ server' = "down"
        /\ \A p \in Pages : page[p] = "idle"
        /\ \A m \in Mobiles : mobile[m] = "idle"
        /\ contract' = FALSE /\ shared' = 0 /\ own' = 0 /\ loads' = 0 /\ failures' = 0
        /\ UNCHANGED <<page, mobile>>

Listening == server \in {"up", "stopping"}

\* A page: without a contract it connects first.
Page(p) ==
  /\ Listening /\ page[p] = "idle"
  /\ loads < MaxLoads /\ loads' = loads + 1
  /\ Goes(p, IF contract THEN "query" ELSE "connect")
  /\ UNCHANGED <<server, contract, shared>> /\ OwnUnchanged

\* The pages that read the ledger; the first four after a login.
Batches(p) == Page(p)
BatchDetails(p) == Page(p)
Products(p) == Page(p)
ProductDetails(p) == Page(p)
VerifyPage(p) == Page(p)

PageConnects(p) ==
  /\ page[p] = "connect"
  /\ \/ Connected /\ Goes(p, "query")
     \/ NotConnected /\ Goes(p, "idle")
  /\ UNCHANGED <<server, loads>> /\ OwnUnchanged

\* The query, answered or failed (also because stopServer took the contract
\* away): nothing is closed and nothing opened again.
PageAnswers(p) ==
  /\ page[p] = "query" /\ Goes(p, "idle")
  /\ UNCHANGED <<server, contract, shared, loads>> /\ OwnUnchanged

\* A mobile request that connected; one that does not is answered at once.
Mobile(m) ==
  /\ Listening /\ mobile[m] = "idle"
  /\ MobileGoes(m, "query") /\ own' = own + 1
  /\ UNCHANGED failures /\ SharedUnchanged
ScanProduct(m) == Mobile(m)
ProductDetailsMobile(m) == Mobile(m)

Disconnect == own' = own - 1

MobileAnswers(m) ==
  /\ mobile[m] = "query" /\ MobileGoes(m, "idle")
  /\ \/ Disconnect /\ UNCHANGED failures
     \/ failures < MaxLoads /\ failures' = failures + 1 /\ UNCHANGED own
  /\ SharedUnchanged

Init ==
  /\ server = "down" /\ contract = FALSE
  /\ page = [p \in Pages |-> "idle"] /\ mobile = [m \in Mobiles |-> "idle"]
  /\ shared = 0 /\ own = 0 /\ loads = 0 /\ failures = 0

Next ==
  \/ StartServer \/ StopServer
  \/ \E p \in Pages :
       \/ Batches(p) \/ BatchDetails(p) \/ Products(p) \/ ProductDetails(p) \/ VerifyPage(p)
       \/ PageConnects(p) \/ PageAnswers(p)
  \/ \E m \in Mobiles : ScanProduct(m) \/ ProductDetailsMobile(m) \/ MobileAnswers(m)

Spec == Init /\ [][Next]_vars

-----------------------------------------------------------------------------
\* Type invariant.
TypeOK ==
  /\ server \in Servers /\ contract \in BOOLEAN
  /\ page \in [Pages -> PageSteps] /\ mobile \in [Mobiles -> {"idle", "query"}]
  /\ shared \in 0 .. MaxLoads + 1 /\ own \in 0 .. MaxLoads + Cardinality(Mobiles)
  /\ loads \in 0 .. MaxLoads /\ failures \in 0 .. MaxLoads

Connecting == {p \in Pages : page[p] = "connect"}

\* However many pages are ever loaded, a process holds no more gateways of
\* theirs than pages can be in progress together: only those that overlapped
\* the first connection leave one behind (and, once more, those that overlap
\* the first one after stopServer began).  A mobile request leaves one exactly
\* when its query fails.
GatewaysBounded ==
  /\ shared + Cardinality(Connecting)
       <= IF server = "stopping" THEN 2 * Cardinality(Pages) - 1 ELSE Cardinality(Pages)
  /\ own = failures + Cardinality({m \in Mobiles : mobile[m] = "query"})
=============================================================================
