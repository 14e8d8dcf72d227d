---------------------------- MODULE XtraDownload ----------------------------
(***************************************************************************)
(* How often the daemon downloads the XTRA file: the budget kept in        *)
(* xtra_gps_file_download_req_cnt and ..._fail_cnt (garden_tools.cpp) by   *)
(* the callback the location library asks for a download with, cleared by  *)
(* a cold start, and the file the client's answer writes                   *)
(* (test_android_gps.cpp).  SessionStart says with which options.          *)
(***************************************************************************)
EXTENDS Integers

CONSTANTS
  MaxCnt,        \* GPS_XTRA_DOWNLOAD_MAX_CNT
  MaxRequests,   \* bound: download requests of the library
  MaxStarts      \* bound: sessions started

ASSUME ConstantsAssumption ==
  /\ MaxCnt \in Nat /\ MaxRequests \in Nat /\ MaxStarts \in Nat

VARIABLES
  enableXtra,        \* sOptions.enableXtra, the argument of -q
  file,              \* XTRA_DATA_FILE_NAME exists
  req_cnt, fail_cnt,
  asked, missed,     \* history: granted requests since the counters were cleared, with
                     \* onDataRequest called, and with no client to call
  pending,           \* requests the XTRA client has yet to answer
  requests, starts

vars == <<enableXtra, file, req_cnt, fail_cnt, asked, missed, pending, requests, starts>>

\* A file that is there is refreshed, one that is not is fetched, each within its limit.
Downloads == {"refresh", "fetch"}
Limit(d) == IF d = "refresh" THEN MaxCnt ELSE 2 * MaxCnt

TypeOK ==
  /\ enableXtra \in {0, 1} /\ file \in BOOLEAN
  /\ req_cnt \in Nat /\ fail_cnt \in Nat /\ pending \in Nat
  /\ asked \in [Downloads -> Nat] /\ missed \in [Downloads -> Nat]
  /\ requests \in 0..MaxRequests /\ starts \in 0..MaxStarts

\* The file may be there from an earlier run of the daemon.
None == [d \in Downloads |-> 0]

Init ==
  /\ enableXtra = 0 /\ file \in BOOLEAN
  /\ req_cnt = 0 /\ fail_cnt = 0 /\ asked = None /\ missed = None /\ pending = 0
  /\ requests = 0 /\ starts = 0

FailsAfter_Kept == fail_cnt   \* mutant: the failures are not forgotten
FailsAfter == 0

\* mds_gps_tool_xtra_gps_file_chk_clr.
ChkClr ==
  /\ req_cnt' = 0 /\ fail_cnt' = FailsAfter /\ asked' = None /\ missed' = None
  /\ file' = FALSE

\* _gps_start: a cold start clears the budget and the file, then the options are read.
GpsStart(type, q) ==
  /\ starts < MaxStarts /\ starts' = starts + 1
  /\ enableXtra' = q
  /\ IF type = "cold" THEN ChkClr ELSE UNCHANGED <<req_cnt, fail_cnt, asked, missed, file>>
  /\ UNCHANGED <<pending, requests>>

OverBudget_Both(req, fail) ==   \* mutant: only refused when both limits are passed
  req > MaxCnt /\ fail > 2 * MaxCnt
OverBudget(req, fail) == req > MaxCnt \/ fail > 2 * MaxCnt

\* Granted, the request is passed on to the client, if get_xtra_client_interface finds one.
Grant(d) ==
  \/ /\ asked' = [asked EXCEPT ![d] = @ + 1] /\ pending' = pending + 1
     /\ UNCHANGED missed
  \/ /\ missed' = [missed EXCEPT ![d] = @ + 1]
     /\ UNCHANGED <<asked, pending>>

\* test_garden_xtra_download_req_cb and mds_gps_tool_xtra_gps_file_chk: the request
\* is counted whether or not it is then granted.
DownloadRequest ==
  /\ requests < MaxRequests /\ requests' = requests + 1
  /\ IF enableXtra = 0
     THEN UNCHANGED <<req_cnt, fail_cnt, asked, missed, pending>>
     ELSE /\ req_cnt' = IF file THEN req_cnt + 1 ELSE req_cnt
          /\ fail_cnt' = IF file THEN fail_cnt ELSE fail_cnt + 1
          /\ IF OverBudget(req_cnt', fail_cnt')
             THEN UNCHANGED <<asked, missed, pending>>
             ELSE Grant(IF file THEN "refresh" ELSE "fetch")
  /\ UNCHANGED <<enableXtra, file, starts>>

\* The client has a request it has not answered.
Owed == pending > 0

\* The client answers, perhaps only after a later cold start, and the callback writes
\* the file unless it cannot be opened.
Answer ==
  /\ Owed /\ pending' = pending - 1
  /\ file' \in {file, TRUE}
  /\ UNCHANGED <<enableXtra, req_cnt, fail_cnt, asked, missed, requests, starts>>

\* A download that fails is never answered.
NoAnswer ==
  /\ Owed /\ pending' = pending - 1
  /\ UNCHANGED <<enableXtra, file, req_cnt, fail_cnt, asked, missed, requests, starts>>

Xtra == DownloadRequest \/ Answer \/ NoAnswer
Next == Xtra \/ \E type \in {"warm", "cold"}, q \in {0, 1} : GpsStart(type, q)
Spec == Init /\ [][Next]_vars
-----------------------------------------------------------------------------
(* Properties.                                                             *)

\* Between two cold starts the client is asked at most MaxCnt times to refresh a
\* file that is there, and at most twice that to fetch one that is not, however
\* requests, answers and failures follow one another.
DownloadBudget == \A d \in Downloads : asked[d] <= Limit(d)

\* A request is refused only when all the refreshes, or all the fetches, of the budget
\* have been granted since the last cold start. Those there was no client to ask for
\* count: without a client the budget is spent on nothing.
RefusedOnlyWhenSpent ==
  [][requests' # requests /\ enableXtra = 1 /\ UNCHANGED <<asked, missed>>
       => \E d \in Downloads : asked[d] + missed[d] >= Limit(d)]_vars
=============================================================================
