---------------------------- MODULE DumpPipeline ----------------------------
(***************************************************************************)
(* The streaming pipeline of runFullBackup (src/internal/backup/service.go *)
(* lines 138-267; runXtraBackup and runMariabackup are the same without    *)
(* encryption):                                                            *)
(*                                                                         *)
(*   dump process -> OS pipe -> goroutine: gzip (-> encrypt) -> io.Pipe    *)
(*                -> UploadStream in the worker -> S3                      *)
(*                                                                         *)
(* An io.Pipe has no buffer: a Write of the goroutine and a Read of the    *)
(* uploader happen together (Deliver), a Write fails once the read end is  *)
(* closed, a Read ends once the write end is.  The two also share errChan, *)
(* a channel of capacity 1.  The unit of data is a chunk of dump output;   *)
(* gzip holds chunks back until it has a block to write.                   *)
(***************************************************************************)
EXTENDS Naturals

CONSTANTS MaxChunks,   \* bound: the size of the dump
          StdoutCap,   \* capacity of the OS pipe between dump and goroutine
          Modes,       \* encSvc # nil: the BOOLEANs the run is tried with
          MayStall     \* whether the dump may stop responding

ASSUME PipelineAssumption ==
    /\ MaxChunks \in Nat /\ StdoutCap \in Nat \ {0}
    /\ Modes \subseteq BOOLEAN /\ MayStall \in BOOLEAN

VARIABLES
    enc,       \* encryption is on in this run
    dump,      \* the dump process
    made,      \* chunks it has written
    inPipe,    \* of these, chunks in the OS pipe
    held,      \* chunks read by the goroutine, not yet written by gzip
    sent,      \* chunks the uploader has received
    tail,      \* trailers it has received: gzip's footer, EOF frames
    comp,      \* where the goroutine stands
    compErr,   \* its copyErr or encErr is not nil
    errChan,   \* "empty", or the value sent
    prOpen,    \* the read end of the io.Pipe is open
    main,      \* where runFullBackup stands
    object, result

dumpVars == <<dump, made, inPipe>>
compVars == <<held, sent, tail, comp, compErr, errChan>>
mainVars == <<prOpen, main, object, result>>
vars == <<enc, dumpVars, compVars, mainVars>>

Alive == {"running", "stalled"}
Trailer == {"footer", "eof"}

Init ==
    /\ enc \in Modes
    /\ dump = "running" /\ made = 0 /\ inPipe = 0
    /\ held = 0 /\ sent = 0 /\ tail = {}
    /\ comp = IF enc THEN "salt" ELSE "copy"
    /\ compErr = FALSE /\ errChan = "empty"
    /\ prOpen = TRUE /\ main = "upload"
    /\ object = "none" /\ result = "pending"

-----------------------------------------------------------------------------
(* Definitions named "...Bug" are variants with a plausible mistake, which a  *)
(* property must reject; no specification uses them.                          *)

(* The dump process (external): it writes, and exits well, with an error,  *)
(* or hangs.                                                               *)
Produce ==
    /\ dump = "running" /\ made < MaxChunks /\ inPipe < StdoutCap
    /\ made' = made + 1 /\ inPipe' = inPipe + 1
    /\ UNCHANGED <<enc, dump, compVars, mainVars>>

\* A dump that has written everything; one blocked on a full pipe has not.
Exit ==
    /\ dump = "running" /\ inPipe < StdoutCap
    /\ dump' = "exited"
    /\ UNCHANGED <<enc, made, inPipe, compVars, mainVars>>

CrashDump ==
    /\ dump = "running"
    /\ dump' = "crashed"
    /\ UNCHANGED <<enc, made, inPipe, compVars, mainVars>>

Stall ==
    /\ MayStall /\ dump = "running"
    /\ dump' = "stalled"
    /\ UNCHANGED <<enc, made, inPipe, compVars, mainVars>>

-----------------------------------------------------------------------------
(* The compression goroutine. *)
Writing == {"salt", "data", "footer", "eof", "eofAgain"}

\* What follows a write: the trailers are written even after an error, but
\* gzip writes no footer once a write has failed.
AfterFooter == IF enc THEN "eof" ELSE "send"

\* EncryptStream fails before it writes the salt.
EncryptInitFails ==
    /\ comp = "salt"
    /\ comp' = "abort" /\ compErr' = TRUE
    /\ UNCHANGED <<enc, dumpVars, held, sent, tail, errChan, mainVars>>

\* io.Copy reads a chunk; gzip keeps it or has a block to write.
ReadStdout ==
    /\ comp = "copy" /\ inPipe > 0
    /\ inPipe' = inPipe - 1 /\ held' = held + 1
    /\ comp' \in {"copy", "data"}
    /\ UNCHANGED <<enc, dump, made, sent, tail, compErr, errChan, mainVars>>

\* The dump has ended, however it did: io.Copy returns nil.
StdoutEOF ==
    /\ comp = "copy" /\ inPipe = 0 /\ dump \notin Alive
    /\ comp' = "footer"
    /\ UNCHANGED <<enc, dumpVars, held, sent, tail, compErr, errChan, mainVars>>

\* What gzip has held back goes out.
Flush == sent' = sent + held /\ held' = 0

\* A write meets a read of the uploader.
Deliver ==
    /\ prOpen /\ main = "upload"
    /\ \/ comp = "salt" /\ comp' = "copy" /\ UNCHANGED <<held, sent, tail>>
       \/ comp = "data" /\ comp' = "copy" /\ Flush /\ UNCHANGED tail
       \/ comp = "footer" /\ comp' = AfterFooter /\ Flush /\ tail' = tail \cup {"footer"}
       \/ /\ comp \in {"eof", "eofAgain"}
          /\ comp' = IF comp = "eof" THEN "send" ELSE "close"
          /\ tail' = tail \cup {"eof"}
          /\ UNCHANGED <<held, sent>>
    /\ UNCHANGED <<enc, dumpVars, compErr, errChan, mainVars>>

\* A write finds the read end closed.  The errors of gw.Close and of
\* encWriter.Close are dropped.
WriteFails ==
    /\ ~prOpen
    /\ \/ comp = "salt" /\ comp' = "abort"
       \/ comp \in {"data", "footer"} /\ comp' = AfterFooter
       \/ comp = "eof" /\ comp' = "send"
       \/ comp = "eofAgain" /\ comp' = "close"
    /\ compErr' = (compErr \/ comp \in {"salt", "data"})
    /\ UNCHANGED <<enc, dumpVars, held, sent, tail, errChan, mainVars>>

\* errChan <- err.  Then the deferred calls: a second encWriter.Close where
\* the writer was made, close(errChan), pw.Close.
SendErr ==
    /\ comp \in {"send", "abort"}
    /\ errChan' = IF compErr THEN "err" ELSE "nil"
    /\ comp' = IF comp = "send" /\ enc THEN "eofAgain" ELSE "close"
    /\ UNCHANGED <<enc, dumpVars, held, sent, tail, compErr, mainVars>>

ClosePipeBug == \* the write end is closed only where something failed
    /\ comp = "close" /\ compErr
    /\ comp' = "done"
    /\ UNCHANGED <<enc, dumpVars, held, sent, tail, compErr, errChan, mainVars>>

ClosePipe ==
    /\ comp = "close"
    /\ comp' = "done"
    /\ UNCHANGED <<enc, dumpVars, held, sent, tail, compErr, errChan, mainVars>>
-----------------------------------------------------------------------------
(* runFullBackup itself. *)
Whole == /\ dump = "exited" /\ sent = made
         /\ "footer" \in tail /\ (enc => "eof" \in tail)

\* UploadStream reads to the end of the stream and completes the upload.
UploadDone ==
    /\ main = "upload" /\ comp = "done"
    /\ object' = IF Whole THEN "complete" ELSE "truncated"
    /\ main' = "collect"
    /\ UNCHANGED <<enc, dumpVars, compVars, prOpen, result>>

\* UploadStream returns an error (at the end of the stream possibly after S3
\* has completed the upload); then pr.Close.
UploadFails ==
    /\ main = "upload"
    /\ \/ UNCHANGED object
       \/ comp = "done" /\ object' = IF Whole THEN "complete" ELSE "truncated"
    /\ prOpen' = FALSE
    /\ main' = "drain"
    /\ UNCHANGED <<enc, dumpVars, compVars, result>>

\* _ = <-errChan, before the dump process is killed.
DrainErr ==
    /\ main = "drain" /\ errChan # "empty"
    /\ main' = "kill"
    /\ UNCHANGED <<enc, dumpVars, compVars, prOpen, object, result>>

\* compErr := <-errChan
CollectErr ==
    /\ main = "collect" /\ errChan # "empty"
    /\ main' = IF errChan = "err" THEN "kill" ELSE "wait"
    /\ UNCHANGED <<enc, dumpVars, compVars, prOpen, object, result>>

KillDumpBug == \* returns without Kill and Wait
    /\ main = "kill"
    /\ main' = "done" /\ result' = "failed"
    /\ UNCHANGED <<enc, dumpVars, compVars, prOpen, object>>

\* Process.Kill; the Wait that follows ignores the exit code.
KillDump ==
    /\ main = "kill"
    /\ dump' = IF dump \in Alive THEN "killed" ELSE dump
    /\ main' = "done" /\ result' = "failed"
    /\ UNCHANGED <<enc, made, inPipe, compVars, prOpen, object>>

WaitDumpBug == \* the exit code is not looked at
    /\ main = "wait" /\ dump \notin Alive
    /\ main' = "done" /\ result' = "success"
    /\ UNCHANGED <<enc, dumpVars, compVars, prOpen, object>>

WaitDump ==
    /\ main = "wait" /\ dump \notin Alive
    /\ main' = "done"
    /\ result' = IF dump = "exited" THEN "success" ELSE "failed"
    /\ UNCHANGED <<enc, dumpVars, compVars, prOpen, object>>

Returned == main = "done" /\ comp = "done" /\ UNCHANGED vars

\* What goes wrong from outside, apart from the steps of the three parties.
Fault == CrashDump \/ Stall \/ EncryptInitFails \/ UploadFails

DumpStep == Produce \/ Exit
CompStep == ReadStdout \/ StdoutEOF \/ Deliver \/ WriteFails \/ SendErr \/ ClosePipe
MainStep == UploadDone \/ DrainErr \/ CollectErr \/ KillDump \/ WaitDump
Next == DumpStep \/ CompStep \/ MainStep \/ Fault \/ Returned

Spec == Init /\ [][Next]_vars

(* Goroutines run, and a dump that has not stalled goes on to its end.  A  *)
(* fault may strike at any step and never has to: an upload that waits for *)
(* data or for the end of the stream is not rescued by an error of S3.     *)
FairSpec == Spec /\ WF_vars(DumpStep) /\ WF_vars(CompStep)
                 /\ WF_vars(MainStep)

-----------------------------------------------------------------------------
TypeOK ==
    /\ enc \in BOOLEAN
    /\ dump \in Alive \cup {"exited", "crashed", "killed"}
    /\ made \in 0 .. MaxChunks /\ inPipe \in 0 .. StdoutCap
    /\ held \in 0 .. MaxChunks /\ sent \in 0 .. MaxChunks
    /\ tail \subseteq Trailer
    /\ comp \in Writing \cup {"copy", "send", "abort", "close", "done"}
    /\ compErr \in BOOLEAN /\ errChan \in {"empty", "nil", "err"}
    /\ prOpen \in BOOLEAN
    /\ main \in {"upload", "drain", "collect", "kill", "wait", "done"}
    /\ object \in {"none", "truncated", "complete"}
    /\ result \in {"pending", "success", "failed"}

\* The pipeline keeps the contract runBackup builds on: although a dump that
\* dies looks like the end of the stream to the uploader, and the truncated
\* object is completed in the bucket, success is returned only when the whole
\* dump, its gzip footer and the EOF frame are there.
Contract == INSTANCE PipelineContract
ContractSpec == Contract!Spec

\* When runFullBackup returns, no dump process is left behind, and the
\* goroutine is past its last use of errChan, with nothing left to block on.
NothingLeftBehind ==
    main = "done" => /\ dump \notin Alive
                     /\ comp \in {"eofAgain", "close", "done"}
                     /\ comp = "eofAgain" => ~prOpen

\* If the dump process does not hang, runFullBackup returns and the goroutine
\* ends, whatever fails: pipe, channel and process are waited for in an order
\* that cannot block for ever.
PipelineReturns == [](dump # "stalled") => <>(main = "done" /\ comp = "done")

=============================================================================
