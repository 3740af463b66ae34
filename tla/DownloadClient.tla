---------------------------- MODULE DownloadClient ----------------------------
(***************************************************************************)
(* The GTK download client (src/UIProcess/API/gtk/WebKitDownloadClient.cpp)*)
(* and WebProcessPool::download (src/UIProcess/WebProcessPool.cpp, lines  *)
(* 1129-1161). The network process reports a download through the         *)
(* DownloadProxy callbacks, in order: didStart, didReceiveResponse,        *)
(* decideDestinationWithSuggestedFilename, didCreateDestination,           *)
(* didReceiveData, then one of didFinish, didFail, didCancel. Every        *)
(* callback looks the WebKitDownload up in the web context, creating it if *)
(* missing; a terminal callback removes it. The application may cancel a   *)
(* download at any time (webkit_download_cancel): the WebKitDownload is    *)
(* marked cancelled at once, and the network process learns of it later,   *)
(* so callbacks already sent still arrive. WebKitDownload and the web      *)
(* context (outside src/) are kept to what the client calls on them.       *)
(***************************************************************************)
EXTENDS Naturals, Sequences

CONSTANTS Downloads   \* DownloadProxy objects

\* The callbacks the network process sends before the terminal one.
Progress == <<"start", "response", "destination", "created", "data">>

NoDownload == [cancelled |-> FALSE, response |-> FALSE, outcome |-> "none"]

VARIABLES
  net,          \* d -> "none" (no proxy), "running" or "done", network side
  sent,         \* d -> how many of Progress the network process has sent
  cancelSeen,   \* d -> the network process has received the cancel
  cancelSent,   \* d -> DownloadProxy::cancel was called
  inContext,    \* d -> the web context's map holds a WebKitDownload for d
  created,      \* d -> WebKitDownload objects created for d
  download,     \* d -> the WebKitDownload's state, as the client sets it
  appHas,       \* d -> the application got it in download-started
  appCancelled  \* history: d -> the application cancelled it

vars == <<net, sent, cancelSeen, cancelSent, inContext, created, download,
          appHas, appCancelled>>

Outcomes == {"none", "cancelled", "failed", "finished"}

TypeOK ==
  /\ net \in [Downloads -> {"none", "running", "done"}]
  /\ sent \in [Downloads -> 0..Len(Progress)]
  /\ download \in [Downloads -> [cancelled : BOOLEAN, response : BOOLEAN, outcome : Outcomes]]
  /\ created \in [Downloads -> 0..2]
  /\ \A f \in {cancelSeen, cancelSent, inContext, appHas, appCancelled} :
       f \in [Downloads -> BOOLEAN]

-----------------------------------------------------------------------------
(* WebKitDownload and the web context, outside src/.                       *)

\* webkitWebContextGetOrCreateDownload: the WebKitDownload of d, a new one
\* (added to the context) if the context has none.
GetOrCreateDownload(d) ==
  IF inContext[d] THEN download[d] ELSE NoDownload

Created(d) ==
  /\ inContext' = [inContext EXCEPT ![d] = TRUE]
  /\ created' = [created EXCEPT ![d] = IF inContext[d] THEN @ ELSE @ + 1]

\* The callback's effect on the WebKitDownload; the context keeps it.
Set(d, dl) ==
  /\ download' = [download EXCEPT ![d] = dl]
  /\ Created(d)

\* webkitDownloadCancelled, webkitDownloadFailed, webkitDownloadFinished,
\* then webkitWebContextRemoveDownload.
Ended(d, dl, outcome) ==
  /\ download' = [download EXCEPT ![d] = [dl EXCEPT !.outcome = outcome,
                                                    !.cancelled = @ \/ outcome = "cancelled"]]
  /\ inContext' = [inContext EXCEPT ![d] = FALSE]
  /\ created' = [created EXCEPT ![d] = IF inContext[d] THEN @ ELSE @ + 1]

-----------------------------------------------------------------------------
(* The DownloadClient callbacks (lines 43-100).                            *)

\* didStart (43-47): the application gets the download (download-started).
DidStart(d) ==
  /\ Set(d, GetOrCreateDownload(d))
  /\ appHas' = [appHas EXCEPT ![d] = TRUE]

\* didReceiveResponse (49-57): ignored for a cancelled download.
DidReceiveResponse(d) ==
  LET dl == GetOrCreateDownload(d)
  IN /\ Set(d, IF dl.cancelled THEN dl ELSE [dl EXCEPT !.response = TRUE])
     /\ UNCHANGED appHas

\* decideDestinationWithSuggestedFilename, didCreateDestination and
\* didReceiveData (59-75): forwarded to the WebKitDownload.
DidProgress(d) ==
  /\ Set(d, GetOrCreateDownload(d))
  /\ UNCHANGED appHas

\* Variant: didFail without its cancellation check.
DidFailReportingError(d) ==
  /\ Ended(d, GetOrCreateDownload(d), "failed")
  /\ UNCHANGED appHas

\* didFail (77-86): cancellation takes precedence over other errors.
DidFail(d) ==
  LET dl == GetOrCreateDownload(d)
  IN /\ Ended(d, dl, IF dl.cancelled THEN "cancelled" ELSE "failed")
     /\ UNCHANGED appHas

\* didCancel (88-93).
DidCancel(d) ==
  /\ Ended(d, GetOrCreateDownload(d), "cancelled")
  /\ UNCHANGED appHas

\* Variant: didFinish that leaves the download in the web context.
DidFinishKeepingDownload(d) ==
  /\ Set(d, [GetOrCreateDownload(d) EXCEPT !.outcome = "finished"])
  /\ UNCHANGED appHas

\* didFinish (95-100).
DidFinish(d) ==
  /\ Ended(d, GetOrCreateDownload(d), "finished")
  /\ UNCHANGED appHas

Handle(d, callback) ==
  CASE callback = "start" -> DidStart(d)
    [] callback = "response" -> DidReceiveResponse(d)
    [] callback \in {"destination", "created", "data"} -> DidProgress(d)
    [] callback = "finish" -> DidFinish(d)
    [] callback = "fail" -> DidFail(d)
    [] callback = "cancel" -> DidCancel(d)

-----------------------------------------------------------------------------
(* The application and the network process.                                *)

\* WebProcessPool::download (lines 1129-1161): a DownloadProxy is created
\* and the request, rewritten for the initiating page, is sent to the
\* network process.
StartDownload(d) ==
  /\ net[d] = "none"
  /\ net' = [net EXCEPT ![d] = "running"]
  /\ UNCHANGED <<sent, cancelSeen, cancelSent, inContext, created, download, appHas, appCancelled>>

\* The network process sends its next callback; the UI process handles it.
\* A download the network process knows is cancelled gets didCancel; one
\* that has started can fail at any point.
NetworkSends(d) ==
  /\ net[d] = "running"
  /\ \E callback \in
        IF cancelSeen[d] THEN {"cancel"}
        ELSE (IF sent[d] < Len(Progress) THEN {Progress[sent[d] + 1]} ELSE {"finish"})
             \union (IF sent[d] > 0 THEN {"fail"} ELSE {}) :
       /\ Handle(d, callback)
       /\ IF callback \in {"finish", "fail", "cancel"}
          THEN net' = [net EXCEPT ![d] = "done"] /\ UNCHANGED sent
          ELSE sent' = [sent EXCEPT ![d] = @ + 1] /\ UNCHANGED net
  /\ UNCHANGED <<cancelSeen, cancelSent, appCancelled>>

\* webkit_download_cancel: the WebKitDownload is marked cancelled and
\* DownloadProxy::cancel asks the network process to stop.
AppCancels(d) ==
  /\ appHas[d] /\ inContext[d] /\ ~download[d].cancelled
  /\ download' = [download EXCEPT ![d].cancelled = TRUE]
  /\ cancelSent' = [cancelSent EXCEPT ![d] = TRUE]
  /\ appCancelled' = [appCancelled EXCEPT ![d] = TRUE]
  /\ UNCHANGED <<net, sent, cancelSeen, inContext, created, appHas>>

\* The cancel reaches the network process; once the download is over
\* there it is ignored.
NetworkReceivesCancel(d) ==
  /\ cancelSent[d] /\ ~cancelSeen[d] /\ net[d] = "running"
  /\ cancelSeen' = [cancelSeen EXCEPT ![d] = TRUE]
  /\ UNCHANGED <<net, sent, cancelSent, inContext, created, download, appHas, appCancelled>>

Init ==
  /\ net = [d \in Downloads |-> "none"] /\ sent = [d \in Downloads |-> 0]
  /\ cancelSeen = [d \in Downloads |-> FALSE] /\ cancelSent = [d \in Downloads |-> FALSE]
  /\ inContext = [d \in Downloads |-> FALSE] /\ created = [d \in Downloads |-> 0]
  /\ download = [d \in Downloads |-> NoDownload]
  /\ appHas = [d \in Downloads |-> FALSE] /\ appCancelled = [d \in Downloads |-> FALSE]

Next ==
  \E d \in Downloads :
    StartDownload(d) \/ NetworkSends(d) \/ AppCancels(d) \/ NetworkReceivesCancel(d)

\* The network process works on every download until it ends, and a cancel
\* sent to it arrives.
Fairness ==
  \A d \in Downloads : WF_vars(NetworkSends(d)) /\ WF_vars(NetworkReceivesCancel(d))

Spec == Init /\ [][Next]_vars /\ Fairness

-----------------------------------------------------------------------------
(* Properties.                                                             *)

\* A download the application cancelled is never reported as failed, also
\* when the network process failed it before the cancel reached it
\* (didFail, line 80): it ends cancelled, or finished if it completed
\* first. And one WebKitDownload serves the whole download: no callback
\* finds the context without it and creates a second one.
CancelReportedAsCancel ==
  \A d \in Downloads :
    /\ appCancelled[d] => download[d].outcome \in {"none", "cancelled", "finished"}
    /\ created[d] <= 1

\* Every download that was started ends, and the web context then no
\* longer holds its WebKitDownload.
DownloadsForgotten ==
  \A d \in Downloads : net[d] = "running" ~> (net[d] = "done" /\ ~inContext[d])
=============================================================================
