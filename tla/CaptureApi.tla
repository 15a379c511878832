------------------------------ MODULE CaptureApi ------------------------------
(***************************************************************************)
(* The capture endpoints of the API.  Every handler reads Kubernetes       *)
(* objects, decides, and writes later, while the operator goes on with the *)
(* same NetworkCaptures.  The operator and the sidecar are the             *)
(* environment here (SidecarCapture and CaptureSidecar model them).        *)
(***************************************************************************)
EXTENDS Naturals

CONSTANTS CaptureNames,        \* the ids capture-start draws
          Remotes,             \* where the server may be: remote (TRUE), local, or either
          CaptureApiRequests   \* the other requests in flight; a stop stamps its own number

VARIABLES
    remote,              \* the server is on a remote cluster
    enabled,             \* spec.capture.enabled
    cr,                  \* the NetworkCaptures
    file,                \* the sidecar's files
    starting,            \* captureStart, by the id it draws
    captureApiRequest,   \* disable, stop, delete and download handlers
    rows                 \* the captures whose download is on the audit log

captureApiVars == <<remote, enabled, cr, file, starting, captureApiRequest, rows>>

ApiPhases == {"none", "", "Pending", "Running", "Completed", "Failed", "Expired", "deleted"}
Cr == [phase: ApiPhases, stop: {0} \cup CaptureApiRequests, pod: BOOLEAN, never: BOOLEAN]
NoCr == [phase |-> "none", stop |-> 0, pod |-> FALSE, never |-> FALSE]
Done == [at |-> "idle", names |-> {}, copy |-> NoCr]

CaptureApiTypeOK ==
    /\ remote \in BOOLEAN /\ enabled \in BOOLEAN /\ rows \subseteq CaptureNames
    /\ cr \in [CaptureNames -> Cr] /\ file \in [CaptureNames -> {"none", "open", "closed"}]
    /\ starting \in [CaptureNames -> [at: {"idle", "checked", "pending", "stale", "answered"}, copy: Cr]]
    /\ captureApiRequest \in [CaptureApiRequests -> [at: {"idle", "disable", "stop", "delete", "cleaned",
                                                          "download",
                                                          "audited", "served"},
                                                     names: SUBSET CaptureNames, copy: Cr]]

CaptureApiInit ==
    /\ remote \in Remotes /\ enabled = FALSE /\ rows = {}
    /\ cr = [c \in CaptureNames |-> NoCr] /\ file = [c \in CaptureNames |-> "none"]
    /\ starting = [c \in CaptureNames |-> [at |-> "idle", copy |-> NoCr]]
    /\ captureApiRequest = [r \in CaptureApiRequests |-> Done]

CaptureApiExists(c) == cr[c].phase \notin {"none", "deleted"}
ActivePhases == {"Pending", "Running"}
TerminalPhases == {"Completed", "Failed", "Expired"}

-----------------------------------------------------------------------------
(* capture-start.                                                          *)

HasActiveCapture == \E c \in CaptureNames : cr[c].phase \in ActivePhases
CheckStart(c) ==
    /\ starting[c].at = "idle" /\ enabled /\ ~HasActiveCapture
    /\ starting' = [starting EXCEPT ![c].at = "checked"]
    /\ UNCHANGED <<remote, enabled, cr, file, captureApiRequest, rows>>
CreateNetworkCapture(c) ==
    LET new == [NoCr EXCEPT !.phase = ""] IN
    /\ starting[c].at = "checked" /\ cr' = [cr EXCEPT ![c] = new]
    /\ starting' = [starting EXCEPT ![c] = [at |-> "pending", copy |-> new]]
    /\ UNCHANGED <<remote, enabled, file, captureApiRequest, rows>>
CaptureApiAnswered == [at |-> "answered", copy |-> NoCr]
\* UpdateStatus refuses a stale copy; the next attempt reads the capture again.
WritePending(c) ==
    IF cr[c] = starting[c].copy
    THEN /\ cr' = [cr EXCEPT ![c].phase = "Pending"]
         /\ starting' = [starting EXCEPT ![c] = CaptureApiAnswered]
    ELSE starting' = [starting EXCEPT ![c] = [at |-> "stale", copy |-> NoCr]] /\ UNCHANGED cr
SetPending(c) ==
    /\ starting[c].at = "pending"
    /\ IF starting[c].copy.phase # ""
       THEN starting' = [starting EXCEPT ![c] = CaptureApiAnswered] /\ UNCHANGED cr
       ELSE WritePending(c)
    /\ UNCHANGED <<remote, enabled, file, captureApiRequest, rows>>
\* Re-fetch after a conflict; gone, or out of attempts: an error, and what exists stays.
ReadAgain(c) ==
    /\ starting[c].at = "stale"
    /\ \/ CaptureApiExists(c) /\ starting' = [starting EXCEPT ![c] = [at |-> "pending", copy |-> cr[c]]]
       \/ starting' = [starting EXCEPT ![c] = CaptureApiAnswered]
    /\ UNCHANGED <<remote, enabled, cr, file, captureApiRequest, rows>>

-----------------------------------------------------------------------------
(* The other handlers: r is the request.                                   *)

CaptureApiGoes(r, to) == captureApiRequest' = [captureApiRequest EXCEPT ![r] = to]
Reads(r, at, c) == CaptureApiGoes(r, [at |-> at, names |-> {c}, copy |-> cr[c]])
Named(r) == CHOOSE c \in captureApiRequest[r].names : TRUE

CaptureEnable ==
    /\ ~enabled /\ enabled' = TRUE
    /\ UNCHANGED <<remote, cr, file, starting, captureApiRequest, rows>>
\* captureDisable: the list of active captures, one stop after another, then the patch.
DisableBegins(r) ==
    /\ captureApiRequest[r].at = "idle" /\ enabled
    /\ CaptureApiGoes(r, [Done EXCEPT !.at = "disable",
                          !.names = {c \in CaptureNames : cr[c].phase \in ActivePhases}])
    /\ UNCHANGED <<remote, enabled, cr, file, starting, rows>>
CaptureApiStopActiveCaptures(r, c) ==
    /\ captureApiRequest[r].at = "disable" /\ c \in captureApiRequest[r].names
    /\ CaptureApiGoes(r, [captureApiRequest[r] EXCEPT !.names = @ \ {c}])
    /\ cr' = [cr EXCEPT ![c].stop = IF CaptureApiExists(c) /\ @ = 0 THEN r ELSE @]
    /\ UNCHANGED <<remote, enabled, file, starting, rows>>
CaptureDisable(r) ==
    /\ captureApiRequest[r].at = "disable" /\ captureApiRequest[r].names = {} /\ enabled' = FALSE
    /\ CaptureApiGoes(r, Done)
    /\ UNCHANGED <<remote, cr, file, starting, rows>>

CaptureStop(r, c) ==
    /\ captureApiRequest[r].at = "idle" /\ cr[c].phase \in ActivePhases \cup {""} /\ Reads(r, "stop", c)
    /\ UNCHANGED <<remote, enabled, cr, file, starting, rows>>
\* The patch carries the resourceVersion read; a conflict reads again.
StopNetworkCapture(r) ==
    LET c == Named(r) IN
    /\ captureApiRequest[r].at = "stop"
    /\ IF CaptureApiExists(c) /\ captureApiRequest[r].copy.stop = 0 /\ cr[c] # captureApiRequest[r].copy
       THEN Reads(r, "stop", c) /\ UNCHANGED cr
       ELSE /\ CaptureApiGoes(r, Done)
            /\ cr' = [cr EXCEPT ![c].stop = IF CaptureApiExists(c) /\ @ = 0 THEN r ELSE @]
    /\ UNCHANGED <<remote, enabled, file, starting, rows>>

DeleteReads(r, c) ==
    /\ captureApiRequest[r].at = "idle" /\ cr[c].phase \in TerminalPhases /\ Reads(r, "delete", c)
    /\ UNCHANGED <<remote, enabled, cr, file, starting, rows>>
\* captureNeverStarted: nothing to clean up, on the operator's word.
CaptureNeverStarted(nc) == nc.phase = "Completed" /\ ~nc.pod /\ nc.never
\* The sidecar refuses a file that is still being written.  A remote cleanup must be
\* acknowledged; a local one is best effort.
CaptureCleanup(r) ==
    LET c == Named(r)  skip == ~remote \/ CaptureNeverStarted(captureApiRequest[r].copy) IN
    /\ captureApiRequest[r].at = "delete"
    /\ \/ /\ file[c] # "open" /\ file' = [file EXCEPT ![c] = "none"]
          /\ CaptureApiGoes(r, [captureApiRequest[r] EXCEPT !.at = "cleaned"])
       \/ skip /\ UNCHANGED file /\ CaptureApiGoes(r, [captureApiRequest[r] EXCEPT !.at = "cleaned"])
       \/ ~skip /\ UNCHANGED file /\ CaptureApiGoes(r, Done)
    /\ UNCHANGED <<remote, enabled, cr, starting, rows>>
CaptureDelete(r) ==
    /\ captureApiRequest[r].at = "cleaned" /\ CaptureApiGoes(r, Done)
    /\ cr' = [cr EXCEPT ![Named(r)] = [NoCr EXCEPT !.phase = "deleted"]]
    /\ UNCHANGED <<remote, enabled, file, starting, rows>>

DownloadReads(r, c) ==
    /\ captureApiRequest[r].at = "idle" /\ cr[c].phase = "Completed"
    /\ CaptureApiGoes(r, [Done EXCEPT !.at = "download", !.names = {c}])
    /\ UNCHANGED <<remote, enabled, cr, file, starting, rows>>
\* auditWriteOrFail: an audit row that cannot be written ends the request.
AuditWriteOrFail(r) ==
    /\ captureApiRequest[r].at = "download"
    /\ \/ /\ CaptureApiGoes(r, [captureApiRequest[r] EXCEPT !.at = "audited"])
          /\ rows' = rows \cup captureApiRequest[r].names
       \/ CaptureApiGoes(r, Done) /\ UNCHANGED rows
    /\ UNCHANGED <<remote, enabled, cr, file, starting>>
CaptureDownload(r) ==
    /\ \/ /\ captureApiRequest[r].at = "audited"
          /\ CaptureApiGoes(r, IF file[Named(r)] = "closed" THEN [captureApiRequest[r] EXCEPT !.at = "served"] ELSE Done)
       \/ captureApiRequest[r].at = "served" /\ CaptureApiGoes(r, Done)
    /\ UNCHANGED <<remote, enabled, cr, file, starting, rows>>

-----------------------------------------------------------------------------
(* The operator and the sidecar.                                           *)

OperatorWrites(c, new, f) ==
    /\ cr' = [cr EXCEPT ![c] = new] /\ file' = [file EXCEPT ![c] = f]
    /\ UNCHANGED <<remote, enabled, starting, captureApiRequest, rows>>
CaptureApiOperatorStep(c) ==
    LET nc == cr[c] IN
    \/ /\ nc.phase \in {"", "Pending"} /\ ~nc.pod /\ enabled
       /\ OperatorWrites(c, [nc EXCEPT !.phase = "Pending", !.pod = TRUE], file[c])
    \/ /\ nc.phase = "Pending" /\ nc.pod
       /\ OperatorWrites(c, [nc EXCEPT !.phase = "Running"], "open")
    \* The start is done but its outcome is not recorded.
    \/ nc.phase = "Pending" /\ nc.pod /\ file[c] = "none" /\ OperatorWrites(c, nc, "open")
    \/ nc.phase \in {"", "Pending", "Running"} /\ OperatorWrites(c, [nc EXCEPT !.phase = "Failed"], file[c])
    \/ /\ nc.phase \in {"", "Pending"} /\ nc.stop # 0 /\ file[c] # "open"
       /\ OperatorWrites(c, [nc EXCEPT !.phase = "Completed", !.never = TRUE], file[c])
    \/ /\ nc.phase \in {"Pending", "Running"} /\ nc.pod
       /\ OperatorWrites(c, [nc EXCEPT !.phase = "Completed"], IF file[c] = "open" THEN "closed" ELSE file[c])
    \/ file[c] = "open" /\ OperatorWrites(c, nc, "closed")
    \* Its retention is over: isExpired is true from here on, before the operator writes it.
    \/ nc.phase = "Completed" /\ OperatorWrites(c, [nc EXCEPT !.phase = "Expired"], file[c])

CaptureApiNext ==
    \/ CaptureEnable
    \/ \E c \in CaptureNames :
          CheckStart(c) \/ CreateNetworkCapture(c) \/ SetPending(c) \/ ReadAgain(c) \/ CaptureApiOperatorStep(c)
    \/ \E r \in CaptureApiRequests :
          \/ DisableBegins(r) \/ CaptureDisable(r) \/ StopNetworkCapture(r) \/ CaptureCleanup(r)
          \/ CaptureDelete(r) \/ AuditWriteOrFail(r) \/ CaptureDownload(r)
          \/ \E c \in CaptureNames :
                CaptureApiStopActiveCaptures(r, c) \/ CaptureStop(r, c) \/ DeleteReads(r, c) \/ DownloadReads(r, c)

-----------------------------------------------------------------------------
(* Properties.                                                             *)

PhaseRank(p) ==
    CASE p = "none" -> 0 [] p = "" -> 1 [] p = "Pending" -> 2 [] p = "Running" -> 3
      [] p \in {"Completed", "Failed"} -> 4 [] p = "Expired" -> 5 [] p = "deleted" -> 6

\* The Pending that capture-start writes never takes a capture back that the operator has
\* already moved on, which would start it a second time.
PhaseNeverRewinds ==
    [][\A c \in CaptureNames : PhaseRank(cr[c].phase) <= PhaseRank(cr'[c].phase)]_captureApiVars

\* A remote capture is deleted only when no file of it is left behind on the remote site.
NoStrandedFile == \A c \in CaptureNames : remote /\ cr[c].phase = "deleted" => file[c] = "none"

\* No file leaves the cluster without its audit row, also when the audit store fails.
ServedWasAudited ==
    \A r \in CaptureApiRequests : captureApiRequest[r].at \in {"audited", "served"} =>
        captureApiRequest[r].names \subseteq rows
=============================================================================
