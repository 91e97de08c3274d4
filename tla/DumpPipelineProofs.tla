------------------------- MODULE DumpPipelineProofs -------------------------
(***************************************************************************)
(* Proofs about DumpPipeline, for every size of the dump and of the OS     *)
(* pipe, with and without encryption, for dumps that may and may not hang; *)
(* and, from "The framed stream" on, about EncryptedStream, the stream     *)
(* that an encrypting pipeline sends: for every payload, every slicing of  *)
(* it, every place where it is cut, every size of the reader's slices.     *)
(***************************************************************************)
EXTENDS DumpPipeline, EncryptedStream, SequenceTheorems, TLAPS

-----------------------------------------------------------------------------
(* The inductive invariant, in parts. *)

\* No chunk is lost between the dump and the uploader, only held back.
Counting == made = inPipe + held + sent

\* Where encryption is needed, and what an aborted goroutine knows.
Encrypting == /\ comp \in {"salt", "eof", "eofAgain"} => enc
              /\ comp = "abort" => compErr

\* errChan is sent to once, and carries what the goroutine has found.
SentOnce == /\ errChan = "empty" <=> comp \notin {"eofAgain", "close", "done"}
            /\ errChan = "nil" => ~compErr
            /\ errChan = "err" => compErr

\* A goroutine that has seen no error has read the dump to its end, ...
ReadToEnd ==
    ~compErr /\ comp \in {"footer", "eof", "send", "eofAgain", "close", "done"}
        => dump \notin Alive /\ inPipe = 0

\* ... and has delivered all of it and its trailers, unless the worker closed
\* the pipe: the errors of the two Close calls are dropped.
Delivered ==
    ~compErr /\ prOpen =>
        /\ comp \in {"eof", "send", "eofAgain", "close", "done"} => held = 0 /\ "footer" \in tail
        /\ comp \in {"send", "eofAgain", "close", "done"} => (enc => "eof" \in tail)

\* Where runFullBackup stands, and what it knows there of the goroutine.
Places ==
    /\ main \in {"upload", "collect", "wait"} => prOpen
    /\ main = "drain" => ~prOpen
    /\ main = "collect" => comp = "done"
    /\ main = "wait" => comp = "done" /\ errChan = "nil"
    /\ main \in {"kill", "done"} => /\ errChan # "empty"
                                    /\ comp = "eofAgain" => ~prOpen

\* The object and the answer.
Answer ==
    /\ result = "pending" <=> main # "done"
    /\ main = "upload" => object = "none"
    /\ main \in {"collect", "wait"} /\ ~compErr /\ dump = "exited" => object = "complete"
    /\ main = "done" => dump \notin Alive

IInv == TypeOK /\ Counting /\ Encrypting /\ SentOnce /\ ReadToEnd /\ Delivered /\ Places /\ Answer
-----------------------------------------------------------------------------
(* The steps of the proof. *)

LEMMA InitInv == Init => IInv
<1> SUFFICES ASSUME Init PROVE IInv
  OBVIOUS
<1>a. enc \in BOOLEAN BY PipelineAssumption DEF Init
<1>b. comp \in {"salt", "copy"} BY DEF Init
<1>c. 0 \in 0 .. MaxChunks /\ 0 \in 0 .. StdoutCap BY PipelineAssumption
<1>1. TypeOK BY <1>a, <1>b, <1>c DEF Init, TypeOK, Alive, Writing
<1>2. Counting BY DEF Init, Counting
<1>3. Encrypting BY DEF Init, Encrypting
<1>4. SentOnce BY DEF Init, SentOnce
<1>5. ReadToEnd BY DEF Init, ReadToEnd
<1>6. Delivered BY DEF Init, Delivered
<1>7. Places BY DEF Init, Places
<1>8. Answer BY DEF Init, Answer, Alive
<1> QED BY <1>1, <1>2, <1>3, <1>4, <1>5, <1>6, <1>7, <1>8 DEF IInv

LEMMA InvStep == IInv /\ [Next]_vars => IInv'
<1> SUFFICES ASSUME IInv, [Next]_vars PROVE IInv'
  OBVIOUS
<1> USE PipelineAssumption DEF dumpVars, compVars, mainVars
<1>1. CASE Produce
  <2>1. TypeOK' BY <1>1 DEF Produce, IInv, TypeOK
  <2>2. Counting' BY <1>1 DEF Produce, IInv, TypeOK, Counting
  <2>3. Encrypting' BY <1>1 DEF Produce, IInv, Encrypting
  <2>4. SentOnce' BY <1>1 DEF Produce, IInv, SentOnce
  <2>5. ReadToEnd' BY <1>1 DEF Produce, IInv, ReadToEnd, TypeOK
  <2>6. Delivered' BY <1>1 DEF Produce, IInv, Delivered
  <2>7. Places' BY <1>1 DEF Produce, IInv, Places
  <2>8. Answer' BY <1>1 DEF Produce, IInv, Answer
  <2> QED BY <2>1, <2>2, <2>3, <2>4, <2>5, <2>6, <2>7, <2>8 DEF IInv
<1>2. CASE Exit
  <2>1. TypeOK' BY <1>2 DEF Exit, IInv, TypeOK
  <2>2. Counting' BY <1>2 DEF Exit, IInv, Counting
  <2>3. Encrypting' BY <1>2 DEF Exit, IInv, Encrypting
  <2>4. SentOnce' BY <1>2 DEF Exit, IInv, SentOnce
  <2>5. ReadToEnd' BY <1>2 DEF Exit, IInv, ReadToEnd, TypeOK
  <2>6. Delivered' BY <1>2 DEF Exit, IInv, Delivered
  <2>7. Places' BY <1>2 DEF Exit, IInv, Places
  <2>8. Answer' BY <1>2 DEF Exit, IInv, Answer, Places, ReadToEnd, TypeOK
  <2> QED BY <2>1, <2>2, <2>3, <2>4, <2>5, <2>6, <2>7, <2>8 DEF IInv
<1>3. CASE CrashDump
  <2>1. TypeOK' BY <1>3 DEF CrashDump, IInv, TypeOK
  <2>2. Counting' BY <1>3 DEF CrashDump, IInv, Counting
  <2>3. Encrypting' BY <1>3 DEF CrashDump, IInv, Encrypting
  <2>4. SentOnce' BY <1>3 DEF CrashDump, IInv, SentOnce
  <2>5. ReadToEnd' BY <1>3 DEF CrashDump, IInv, ReadToEnd, TypeOK
  <2>6. Delivered' BY <1>3 DEF CrashDump, IInv, Delivered
  <2>7. Places' BY <1>3 DEF CrashDump, IInv, Places
  <2>8. Answer' BY <1>3 DEF CrashDump, IInv, Answer, TypeOK
  <2> QED BY <2>1, <2>2, <2>3, <2>4, <2>5, <2>6, <2>7, <2>8 DEF IInv
<1>4. CASE Stall
  <2>1. TypeOK' BY <1>4 DEF Stall, Alive, IInv, TypeOK
  <2>2. Counting' BY <1>4 DEF Stall, IInv, Counting
  <2>3. Encrypting' BY <1>4 DEF Stall, IInv, Encrypting
  <2>4. SentOnce' BY <1>4 DEF Stall, IInv, SentOnce
  <2>5. ReadToEnd' BY <1>4 DEF Stall, IInv, ReadToEnd, TypeOK
  <2>6. Delivered' BY <1>4 DEF Stall, IInv, Delivered
  <2>7. Places' BY <1>4 DEF Stall, IInv, Places
  <2>8. Answer' BY <1>4 DEF Stall, IInv, Answer, TypeOK
  <2> QED BY <2>1, <2>2, <2>3, <2>4, <2>5, <2>6, <2>7, <2>8 DEF IInv
<1>5. CASE EncryptInitFails
  <2>1. TypeOK' BY <1>5 DEF EncryptInitFails, IInv, TypeOK
  <2>2. Counting' BY <1>5 DEF EncryptInitFails, IInv, Counting
  <2>3. Encrypting' BY <1>5 DEF EncryptInitFails, IInv, Encrypting
  <2>4. SentOnce' BY <1>5 DEF EncryptInitFails, IInv, SentOnce
  <2>5. ReadToEnd' BY <1>5 DEF EncryptInitFails, IInv, ReadToEnd
  <2>6. Delivered' BY <1>5 DEF EncryptInitFails, IInv, Delivered
  <2>7. Places' BY <1>5 DEF EncryptInitFails, IInv, Places
  <2>8. Answer' BY <1>5 DEF EncryptInitFails, IInv, Answer
  <2> QED BY <2>1, <2>2, <2>3, <2>4, <2>5, <2>6, <2>7, <2>8 DEF IInv
<1>6. CASE ReadStdout
  <2>1. TypeOK' BY <1>6 DEF ReadStdout, IInv, TypeOK, Counting, Writing
  <2>2. Counting' BY <1>6 DEF ReadStdout, IInv, TypeOK, Counting
  <2>3. Encrypting' BY <1>6 DEF ReadStdout, IInv, Encrypting
  <2>4. SentOnce' BY <1>6 DEF ReadStdout, IInv, SentOnce
  <2>5. ReadToEnd' BY <1>6 DEF ReadStdout, IInv, ReadToEnd
  <2>6. Delivered' BY <1>6 DEF ReadStdout, IInv, Delivered
  <2>7. Places' BY <1>6 DEF ReadStdout, IInv, Places
  <2>8. Answer' BY <1>6 DEF ReadStdout, IInv, Answer
  <2> QED BY <2>1, <2>2, <2>3, <2>4, <2>5, <2>6, <2>7, <2>8 DEF IInv
<1>7. CASE StdoutEOF
  <2>1. TypeOK' BY <1>7 DEF StdoutEOF, IInv, TypeOK, Writing
  <2>2. Counting' BY <1>7 DEF StdoutEOF, IInv, Counting
  <2>3. Encrypting' BY <1>7 DEF StdoutEOF, IInv, Encrypting
  <2>4. SentOnce' BY <1>7 DEF StdoutEOF, IInv, SentOnce
  <2>5. ReadToEnd' BY <1>7 DEF StdoutEOF, IInv, ReadToEnd
  <2>6. Delivered' BY <1>7 DEF StdoutEOF, IInv, Delivered
  <2>7. Places' BY <1>7 DEF StdoutEOF, IInv, Places
  <2>8. Answer' BY <1>7 DEF StdoutEOF, IInv, Answer
  <2> QED BY <2>1, <2>2, <2>3, <2>4, <2>5, <2>6, <2>7, <2>8 DEF IInv
<1>8. CASE Deliver
  <2>a. sent' \in 0 .. MaxChunks /\ held' \in 0 .. MaxChunks
    BY <1>8 DEF Deliver, Flush, IInv, TypeOK, Counting
  <2>b. tail' \subseteq Trailer
    BY <1>8 DEF Deliver, IInv, TypeOK, Trailer
  <2>1. TypeOK' BY <1>8, <2>a, <2>b DEF Deliver, AfterFooter, IInv, TypeOK, Writing
  <2>2. Counting' BY <1>8 DEF Deliver, Flush, IInv, TypeOK, Counting
  <2>3. Encrypting' BY <1>8 DEF Deliver, AfterFooter, IInv, Encrypting
  <2>4. SentOnce' BY <1>8 DEF Deliver, AfterFooter, IInv, SentOnce
  <2>5. ReadToEnd' BY <1>8 DEF Deliver, IInv, ReadToEnd
  <2>6. Delivered' BY <1>8 DEF Deliver, Flush, AfterFooter, IInv, Delivered
  <2>7. Places' BY <1>8 DEF Deliver, IInv, Places
  <2>8. Answer' BY <1>8 DEF Deliver, IInv, Answer
  <2> QED BY <2>1, <2>2, <2>3, <2>4, <2>5, <2>6, <2>7, <2>8 DEF IInv
<1>9. CASE WriteFails
  <2>1. TypeOK' BY <1>9 DEF WriteFails, AfterFooter, IInv, TypeOK, Writing
  <2>2. Counting' BY <1>9 DEF WriteFails, IInv, Counting
  <2>3. Encrypting' BY <1>9 DEF WriteFails, AfterFooter, IInv, Encrypting
  <2>4. SentOnce' BY <1>9 DEF WriteFails, AfterFooter, IInv, SentOnce
  <2>5. ReadToEnd' BY <1>9 DEF WriteFails, IInv, ReadToEnd
  <2>6. Delivered' BY <1>9 DEF WriteFails, IInv, Delivered
  <2>7. Places' BY <1>9 DEF WriteFails, IInv, Places
  <2>8. Answer' BY <1>9 DEF WriteFails, IInv, Answer
  <2> QED BY <2>1, <2>2, <2>3, <2>4, <2>5, <2>6, <2>7, <2>8 DEF IInv
<1>10. CASE SendErr
  <2>1. TypeOK' BY <1>10 DEF SendErr, IInv, TypeOK, Writing
  <2>2. Counting' BY <1>10 DEF SendErr, IInv, Counting
  <2>3. Encrypting' BY <1>10 DEF SendErr, IInv, Encrypting
  <2>4. SentOnce' BY <1>10 DEF SendErr, IInv, SentOnce
  <2>5. ReadToEnd' BY <1>10 DEF SendErr, IInv, ReadToEnd, Encrypting
  <2>6. Delivered' BY <1>10 DEF SendErr, IInv, Delivered, Encrypting
  <2>7. Places' BY <1>10 DEF SendErr, IInv, Places, SentOnce
  <2>8. Answer' BY <1>10 DEF SendErr, IInv, Answer
  <2> QED BY <2>1, <2>2, <2>3, <2>4, <2>5, <2>6, <2>7, <2>8 DEF IInv
<1>11. CASE ClosePipe
  <2>1. TypeOK' BY <1>11 DEF ClosePipe, IInv, TypeOK
  <2>2. Counting' BY <1>11 DEF ClosePipe, IInv, Counting
  <2>3. Encrypting' BY <1>11 DEF ClosePipe, IInv, Encrypting
  <2>4. SentOnce' BY <1>11 DEF ClosePipe, IInv, SentOnce
  <2>5. ReadToEnd' BY <1>11 DEF ClosePipe, IInv, ReadToEnd
  <2>6. Delivered' BY <1>11 DEF ClosePipe, IInv, Delivered
  <2>7. Places' BY <1>11 DEF ClosePipe, IInv, Places
  <2>8. Answer' BY <1>11 DEF ClosePipe, IInv, Answer
  <2> QED BY <2>1, <2>2, <2>3, <2>4, <2>5, <2>6, <2>7, <2>8 DEF IInv
<1>12. CASE UploadDone
  <2>1. TypeOK' BY <1>12 DEF UploadDone, IInv, TypeOK
  <2>2. Counting' BY <1>12 DEF UploadDone, IInv, Counting
  <2>3. Encrypting' BY <1>12 DEF UploadDone, IInv, Encrypting
  <2>4. SentOnce' BY <1>12 DEF UploadDone, IInv, SentOnce
  <2>5. ReadToEnd' BY <1>12 DEF UploadDone, IInv, ReadToEnd
  <2>6. Delivered' BY <1>12 DEF UploadDone, IInv, Delivered
  <2>7. Places' BY <1>12 DEF UploadDone, IInv, Places
  <2>8. Answer' BY <1>12
                   DEF UploadDone, Whole, IInv, Answer, Places, ReadToEnd, Delivered, Counting,
                       TypeOK
  <2> QED BY <2>1, <2>2, <2>3, <2>4, <2>5, <2>6, <2>7, <2>8 DEF IInv
<1>13. CASE UploadFails
  <2>a. object' \in {"none", "truncated", "complete"}
    BY <1>13 DEF UploadFails, IInv, TypeOK
  <2>1. TypeOK' BY <1>13, <2>a DEF UploadFails, IInv, TypeOK
  <2>2. Counting' BY <1>13 DEF UploadFails, IInv, Counting
  <2>3. Encrypting' BY <1>13 DEF UploadFails, IInv, Encrypting
  <2>4. SentOnce' BY <1>13 DEF UploadFails, IInv, SentOnce
  <2>5. ReadToEnd' BY <1>13 DEF UploadFails, IInv, ReadToEnd
  <2>6. Delivered' BY <1>13 DEF UploadFails, IInv, Delivered
  <2>7. Places' BY <1>13 DEF UploadFails, IInv, Places
  <2>8. Answer' BY <1>13 DEF UploadFails, IInv, Answer
  <2> QED BY <2>1, <2>2, <2>3, <2>4, <2>5, <2>6, <2>7, <2>8 DEF IInv
<1>14. CASE DrainErr
  <2>1. TypeOK' BY <1>14 DEF DrainErr, IInv, TypeOK
  <2>2. Counting' BY <1>14 DEF DrainErr, IInv, Counting
  <2>3. Encrypting' BY <1>14 DEF DrainErr, IInv, Encrypting
  <2>4. SentOnce' BY <1>14 DEF DrainErr, IInv, SentOnce
  <2>5. ReadToEnd' BY <1>14 DEF DrainErr, IInv, ReadToEnd
  <2>6. Delivered' BY <1>14 DEF DrainErr, IInv, Delivered
  <2>7. Places' BY <1>14 DEF DrainErr, IInv, Places
  <2>8. Answer' BY <1>14 DEF DrainErr, IInv, Answer
  <2> QED BY <2>1, <2>2, <2>3, <2>4, <2>5, <2>6, <2>7, <2>8 DEF IInv
<1>15. CASE CollectErr
  <2>1. TypeOK' BY <1>15 DEF CollectErr, IInv, TypeOK
  <2>2. Counting' BY <1>15 DEF CollectErr, IInv, Counting
  <2>3. Encrypting' BY <1>15 DEF CollectErr, IInv, Encrypting
  <2>4. SentOnce' BY <1>15 DEF CollectErr, IInv, SentOnce
  <2>5. ReadToEnd' BY <1>15 DEF CollectErr, IInv, ReadToEnd
  <2>6. Delivered' BY <1>15 DEF CollectErr, IInv, Delivered
  <2>7. Places' BY <1>15 DEF CollectErr, IInv, Places, TypeOK
  <2>8. Answer' BY <1>15 DEF CollectErr, IInv, Answer
  <2> QED BY <2>1, <2>2, <2>3, <2>4, <2>5, <2>6, <2>7, <2>8 DEF IInv
<1>16. CASE KillDump
  <2>1. TypeOK' BY <1>16 DEF KillDump, IInv, TypeOK
  <2>2. Counting' BY <1>16 DEF KillDump, IInv, Counting
  <2>3. Encrypting' BY <1>16 DEF KillDump, IInv, Encrypting
  <2>4. SentOnce' BY <1>16 DEF KillDump, IInv, SentOnce
  <2>5. ReadToEnd' BY <1>16 DEF KillDump, IInv, ReadToEnd
  <2>6. Delivered' BY <1>16 DEF KillDump, IInv, Delivered
  <2>7. Places' BY <1>16 DEF KillDump, IInv, Places
  <2>8. Answer' BY <1>16 DEF KillDump, Alive, IInv, Answer
  <2> QED BY <2>1, <2>2, <2>3, <2>4, <2>5, <2>6, <2>7, <2>8 DEF IInv
<1>17. CASE WaitDump
  <2>1. TypeOK' BY <1>17 DEF WaitDump, IInv, TypeOK
  <2>2. Counting' BY <1>17 DEF WaitDump, IInv, Counting
  <2>3. Encrypting' BY <1>17 DEF WaitDump, IInv, Encrypting
  <2>4. SentOnce' BY <1>17 DEF WaitDump, IInv, SentOnce
  <2>5. ReadToEnd' BY <1>17 DEF WaitDump, IInv, ReadToEnd
  <2>6. Delivered' BY <1>17 DEF WaitDump, IInv, Delivered
  <2>7. Places' BY <1>17 DEF WaitDump, IInv, Places
  <2>8. Answer' BY <1>17 DEF WaitDump, IInv, Answer
  <2> QED BY <2>1, <2>2, <2>3, <2>4, <2>5, <2>6, <2>7, <2>8 DEF IInv
<1>18. CASE Returned
  <2>1. TypeOK' BY <1>18 DEF Returned, vars, IInv, TypeOK
  <2>2. Counting' BY <1>18 DEF Returned, vars, IInv, Counting
  <2>3. Encrypting' BY <1>18 DEF Returned, vars, IInv, Encrypting
  <2>4. SentOnce' BY <1>18 DEF Returned, vars, IInv, SentOnce
  <2>5. ReadToEnd' BY <1>18 DEF Returned, vars, IInv, ReadToEnd
  <2>6. Delivered' BY <1>18 DEF Returned, vars, IInv, Delivered
  <2>7. Places' BY <1>18 DEF Returned, vars, IInv, Places
  <2>8. Answer' BY <1>18 DEF Returned, vars, IInv, Answer
  <2> QED BY <2>1, <2>2, <2>3, <2>4, <2>5, <2>6, <2>7, <2>8 DEF IInv
<1>19. CASE UNCHANGED vars
  BY <1>19
     DEF vars, IInv, TypeOK, Counting, Encrypting, SentOnce, ReadToEnd, Delivered, Places, Answer
<1> QED BY <1>1, <1>2, <1>3, <1>4, <1>5, <1>6, <1>7, <1>8, <1>9, <1>10, <1>11, <1>12, <1>13, <1>14, <1>15, <1>16, <1>17, <1>18, <1>19 DEF Next, DumpStep, CompStep, MainStep, Fault

\* IInv holds in every reachable state, whatever the dump does and wherever the
\* uploader, the encryption or a write fails.
THEOREM Invariance == Spec => []IInv
BY InitInv, InvStep, PTL DEF Spec

\* The counters of the streaming pipeline and the places of its three parties
\* keep their types.
THEOREM TypeCorrect == Spec => []TypeOK
<1>1. IInv => TypeOK
  BY DEF IInv
<1> QED BY Invariance, <1>1, PTL

\* When runFullBackup has returned, with success or not, the dump process has
\* ended, and its goroutine has no blocking step left.
THEOREM NothingLeft == Spec => []NothingLeftBehind
<1>1. IInv => NothingLeftBehind
  BY DEF IInv, TypeOK, NothingLeftBehind, Places, Answer, SentOnce
<1> QED BY Invariance, <1>1, PTL

-----------------------------------------------------------------------------
(* The pipeline implements its contract. *)

LEMMA ContractStep == IInv /\ [Next]_vars => [Contract!Next]_<<object, result>>
<1> SUFFICES ASSUME IInv, [Next]_vars PROVE [Contract!Next]_<<object, result>>
  OBVIOUS
<1> USE DEF dumpVars, compVars, mainVars
<1>1. CASE DumpStep \/ CrashDump \/ Stall \/ EncryptInitFails \/ CompStep
  BY <1>1 DEF DumpStep, CrashDump, Stall, CompStep, Produce, Exit, EncryptInitFails, ReadStdout,
              StdoutEOF, Deliver, WriteFails, SendErr, ClosePipe
<1>2. ASSUME main = "upload", UNCHANGED result,
             object' \in {"truncated", "complete"} PROVE Contract!Store
  BY <1>2 DEF IInv, Answer, Contract!Store
<1>3. CASE UploadDone
  BY <1>2, <1>3 DEF UploadDone, Contract!Next
<1>4. CASE UploadFails
  <2>1. CASE UNCHANGED object
    BY <1>4, <2>1 DEF UploadFails
  <2>2. CASE ~UNCHANGED object
    BY <1>2, <1>4, <2>2 DEF UploadFails, Contract!Next
  <2> QED BY <2>1, <2>2
<1>5. CASE DrainErr \/ CollectErr
  BY <1>5 DEF DrainErr, CollectErr
<1>6. CASE KillDump
  BY <1>6 DEF KillDump, IInv, Answer, Contract!Next, Contract!Fail
<1>7. CASE WaitDump
  <2>1. result = "pending" /\ (dump = "exited" => object = "complete")
    BY <1>7 DEF WaitDump, IInv, Answer, Places, SentOnce
  <2> QED BY <1>7, <2>1 DEF WaitDump, Contract!Next, Contract!Succeed, Contract!Fail
<1>8. CASE Returned \/ UNCHANGED vars
  BY <1>8 DEF Returned, vars
<1> QED BY <1>1, <1>3, <1>4, <1>5, <1>6, <1>7, <1>8 DEF Next, MainStep, Fault

\* The pipeline implements PipelineContract: it answers once, and with success
\* only when the object is the whole dump with its footer and EOF frame.
THEOREM ImplementsContract == Spec => ContractSpec
<1>1. Init => Contract!Init
  BY DEF Init, Contract!Init
<1> QED BY <1>1, ContractStep, Invariance, PTL DEF Spec, ContractSpec, Contract!Spec

-----------------------------------------------------------------------------
(* The framed stream: its inductive invariant. *)

\* What a unit of the wire can be.
Unit == {Salt} \cup [kind : {"nonce", "len"}, value : Nat]
               \cup [kind : {"ct"}, nonce : Nat, at : Nat, len : Nat, hides : Nat]

\* The types, and where the reader is before it has come to a frame.
StreamTypes ==
    /\ StreamTypeOK /\ wire \in Seq(Unit)
    /\ counter = frames + 1
    /\ reader = "wait" <=> ~cut
    /\ reader \in {"wait", "salt"} => pos = 0 /\ out = <<>> /\ buf = <<>>

\* The units of payload before each frame, and before the end of the stream.
Offsets == [1 .. frames + 1 -> 0 .. Len(plain)]

\* The units of the wire before frame k, if off[k] units of payload are.
Start(off, k) == 2 + off[k] + 3 * (k - 1)

\* Frame k, as far as it has arrived.
Frame(off, k) ==
    LET s == Start(off, k)
        d == off[k + 1] - off[k]
    IN  /\ s + 1 <= Len(wire) => wire[s + 1] = [kind |-> "nonce", value |-> k]
        /\ s + 2 <= Len(wire) => wire[s + 2] = [kind |-> "len", value |-> d + 1]
        /\ \A i \in 1 .. d + 1 : s + 2 + i <= Len(wire) =>
               wire[s + 2 + i] = [kind |-> "ct", nonce |-> k, at |-> i, len |-> d + 1,
                                  hides |-> IF i <= d THEN plain[off[k] + i] ELSE 0]

\* The whole wire: the frames one after the other, and what Close has added.
Layout(off) ==
    /\ off[1] = 0 /\ off[frames + 1] = Len(plain)
    /\ \A k, m \in 1 .. frames + 1 : k <= m => off[k] <= off[m]
    /\ \A k \in 1 .. frames : Frame(off, k)
    /\ LET e == Start(off, frames + 1) IN
       /\ \A j \in 1 .. 2 * closes : e + j <= Len(wire) => wire[e + j].value = 0
       /\ Len(wire) <= e + 2 * closes
       /\ ~cut => Len(wire) = e + 2 * closes

\* The reader stands before a frame, with the payload of those it has read.
Standing(off) ==
    reader = "read" =>
        \E k \in 1 .. frames + 1 : pos = Start(off, k) /\ Len(out) + Len(buf) = off[k]

\* Unit by unit, what DecryptsPrefix says.
Handed ==
    /\ Len(out) + Len(buf) <= Len(plain)
    /\ \A i \in 1 .. Len(out) : out[i] = plain[i]
    /\ \A i \in 1 .. Len(buf) : buf[i] = plain[Len(out) + i]

\* At the end of the stream, all of the payload has been handed out.
StreamInv ==
    /\ StreamTypes /\ Handed
    /\ \E off \in Offsets : Layout(off) /\ Standing(off)
    /\ reader = "eof" => closes > 0 /\ buf = <<>> /\ Len(out) = Len(plain)
    /\ NoFalseAlarm
-----------------------------------------------------------------------------
(* Sequences of units. *)

\* The two units of a header.
LEMMA HeaderUnits ==
    ASSUME NEW n \in Nat, NEW l \in Nat
    PROVE  /\ Header(n, l) \in Seq(Unit) /\ Len(Header(n, l)) = 2
           /\ Header(n, l)[1] = [kind |-> "nonce", value |-> n]
           /\ Header(n, l)[2] = [kind |-> "len", value |-> l]
<1>1. [kind |-> "nonce", value |-> n] \in Unit /\ [kind |-> "len", value |-> l] \in Unit
  BY DEF Unit
<1> QED BY <1>1 DEF Header

\* A sequence that is given by its units.
LEMMA UnitByUnit ==
    ASSUME NEW S, NEW n \in Nat, NEW s \in [1 .. n -> S]
    PROVE  s \in Seq(S) /\ Len(s) = n
<1>1. s \in Seq(S)
  BY SeqDef
<1>2. Len(s) \in Nat /\ 1 .. Len(s) = 1 .. n
  BY <1>1, LenProperties
<1>3. Len(s) = n
  BY <1>2
<1> QED BY <1>1, <1>3

\* A part of a sequence.
LEMMA PartOf ==
    ASSUME NEW S, NEW w \in Seq(S), NEW a \in Nat, NEW n \in Nat, a + n <= Len(w),
           NEW l, l = a + 1, NEW h, h = a + n
    PROVE  /\ SubSeq(w, l, h) \in Seq(S) /\ Len(SubSeq(w, l, h)) = n
           /\ \A i \in 1 .. n : SubSeq(w, l, h)[i] = w[a + i]
<1>1. l \in Int /\ h \in Int /\ Len(w) \in Nat
  BY LenProperties
<1>2. \A i \in l .. h : i \in 1 .. Len(w)
  BY <1>1
<1>3. \A i \in l .. h : w[i] \in S
  BY <1>2, ElementOfSeq
<1>4. /\ SubSeq(w, l, h) \in Seq(S)
      /\ Len(SubSeq(w, l, h)) = IF l <= h THEN h - l + 1 ELSE 0
      /\ \A i \in 1 .. h - l + 1 : SubSeq(w, l, h)[i] = w[l + i - 1]
  BY <1>1, <1>3, SubSeqProperties
<1>5. (IF l <= h THEN h - l + 1 ELSE 0) = n /\ h - l + 1 = n /\ \A i \in 1 .. n : l + i - 1 = a + i
  OBVIOUS
<1> QED BY <1>4, <1>5

\* The first n units of a sequence.
LEMMA FirstUnits ==
    ASSUME NEW S, NEW w \in Seq(S), NEW n \in Nat, n <= Len(w)
    PROVE  /\ SubSeq(w, 1, n) \in Seq(S) /\ Len(SubSeq(w, 1, n)) = n
           /\ \A i \in 1 .. n : SubSeq(w, 1, n)[i] = w[i]
<1>1. PICK a \in Nat, l \in Nat : a = 0 /\ l = 1
  OBVIOUS
<1>2. /\ SubSeq(w, l, n) \in Seq(S) /\ Len(SubSeq(w, l, n)) = n
      /\ \A i \in 1 .. n : SubSeq(w, l, n)[i] = w[a + i]
  BY <1>1, PartOf
<1> QED BY <1>1, <1>2

\* The units of a ciphertext.
LEMMA SealUnits ==
    ASSUME NEW n \in Nat, NEW p \in Seq(Nat)
    PROVE  /\ Seal(n, p) \in Seq(Unit) /\ Len(Seal(n, p)) = Len(p) + 1
           /\ \A i \in 1 .. Len(p) + 1 :
                Seal(n, p)[i] = [kind |-> "ct", nonce |-> n, at |-> i, len |-> Len(p) + 1,
                                 hides |-> IF i <= Len(p) THEN p[i] ELSE 0]
<1>1. Len(p) \in Nat /\ \A i \in 1 .. Len(p) : p[i] \in Nat
  BY LenProperties, ElementOfSeq
<1>2. \A i \in 1 .. Len(p) + 1 : (IF i <= Len(p) THEN p[i] ELSE 0) \in Nat
  BY <1>1
<1>3. Seal(n, p) \in [1 .. Len(p) + 1 -> Unit]
  BY <1>1, <1>2 DEF Seal, Unit
<1>4. Seal(n, p) \in Seq(Unit) /\ Len(Seal(n, p)) = Len(p) + 1
  BY <1>1, <1>3, UnitByUnit
<1> QED BY <1>4 DEF Seal

\* What is sealed opens under its nonce, to what it hides.
LEMMA Unsealed ==
    ASSUME NEW n \in Nat, NEW d \in Nat, NEW c \in Seq(Unit), Len(c) = d + 1, NEW q \in [1 .. d -> Nat],
           \A i \in 1 .. d + 1 : c[i] = [kind |-> "ct", nonce |-> n, at |-> i, len |-> d + 1,
                                      hides |-> IF i <= d THEN q[i] ELSE 0]
    PROVE  /\ Opens(n, c) /\ Open(c) \in Seq(Nat) /\ Len(Open(c)) = d
           /\ \A i \in 1 .. d : Open(c)[i] = q[i]
<1>1. Opens(n, c)
  BY DEF Opens
<1>2. \A i \in 1 .. d : i \in 1 .. d + 1 /\ i <= d /\ c[i].hides = q[i]
  OBVIOUS
<1>3. Open(c) = [i \in 1 .. d |-> c[i].hides]
  BY DEF Open
<1>4. Open(c) \in [1 .. d -> Nat] /\ \A i \in 1 .. d : Open(c)[i] = q[i]
  BY <1>2, <1>3
<1>5. Open(c) \in Seq(Nat) /\ Len(Open(c)) = d
  BY <1>4, UnitByUnit
<1> QED BY <1>1, <1>4, <1>5

\* The wire x is w with the frame that a call of Write adds.
Appended(x, w, n, p) ==
    /\ x \in Seq(Unit) /\ Len(x) = Len(w) + 3 + Len(p)
    /\ \A i \in 1 .. Len(w) : x[i] = w[i]
    /\ x[Len(w) + 1] = [kind |-> "nonce", value |-> n]
    /\ x[Len(w) + 2] = [kind |-> "len", value |-> Len(p) + 1]
    /\ \A i \in 1 .. Len(p) + 1 :
         x[Len(w) + 2 + i] = [kind |-> "ct", nonce |-> n, at |-> i, len |-> Len(p) + 1,
                              hides |-> IF i <= Len(p) THEN p[i] ELSE 0]

\* encryptWriter.Write: the wire gets a header and a ciphertext.
LEMMA Written ==
    ASSUME NEW w \in Seq(Unit), NEW n \in Nat, NEW p \in Seq(Nat), NEW x,
           x = w \o Header(n, Len(p) + 1) \o Seal(n, p)
    PROVE  Appended(x, w, n, p)
<1> DEFINE h == Header(n, Len(p) + 1)
           c == Seal(n, p)
           y == w \o h
<1>1. Len(p) \in Nat /\ Len(w) \in Nat
  BY LenProperties
<1>2. /\ h \in Seq(Unit) /\ Len(h) = 2
      /\ h[1] = [kind |-> "nonce", value |-> n] /\ h[2] = [kind |-> "len", value |-> Len(p) + 1]
  BY <1>1, HeaderUnits
<1>3. /\ c \in Seq(Unit) /\ Len(c) = Len(p) + 1
      /\ \A i \in 1 .. Len(p) + 1 :
            c[i] = [kind |-> "ct", nonce |-> n, at |-> i, len |-> Len(p) + 1,
                    hides |-> IF i <= Len(p) THEN p[i] ELSE 0]
  BY SealUnits
<1> HIDE DEF h, c
<1>4. /\ y \in Seq(Unit) /\ Len(y) = Len(w) + 2
      /\ \A i \in 1 .. Len(w) + 2 : y[i] = IF i <= Len(w) THEN w[i] ELSE h[i - Len(w)]
  <2>1. h \in Seq(Unit) /\ w \in Seq(Unit)
    BY <1>2
  <2>2. /\ y \in Seq(Unit) /\ Len(y) = Len(w) + Len(h)
        /\ \A i \in 1 .. Len(w) + Len(h) : y[i] = IF i <= Len(w) THEN w[i] ELSE h[i - Len(w)]
    BY <2>1, ConcatProperties, Zenon
  <2> QED BY <1>2, <2>2
<1> HIDE DEF y
<1>5. x = y \o c
  BY DEF y, h, c
<1>6. /\ x \in Seq(Unit) /\ Len(x) = Len(w) + 3 + Len(p)
      /\ \A i \in 1 .. Len(w) + 3 + Len(p) : x[i] = IF i <= Len(w) + 2 THEN y[i] ELSE c[i - (Len(w) + 2)]
  <2>1. /\ x \in Seq(Unit) /\ Len(x) = Len(y) + Len(c)
        /\ \A i \in 1 .. Len(y) + Len(c) : x[i] = IF i <= Len(y) THEN y[i] ELSE c[i - Len(y)]
    <3>1. c \in Seq(Unit) /\ y \in Seq(Unit)
      BY <1>3, <1>4
    <3>2. /\ y \o c \in Seq(Unit) /\ Len(y \o c) = Len(y) + Len(c)
          /\ \A i \in 1 .. Len(y) + Len(c) : (y \o c)[i] = IF i <= Len(y) THEN y[i] ELSE c[i - Len(y)]
      BY <3>1, ConcatProperties, Zenon
    <3> QED BY <3>2, <1>5
  <2>2. Len(y) + Len(c) = Len(w) + 3 + Len(p)
    BY <1>1, <1>3, <1>4
  <2> QED BY <2>1, <2>2, <1>4
<1>7. \A i \in 1 .. Len(w) : x[i] = w[i]
  BY <1>1, <1>4, <1>6
<1>8. x[Len(w) + 1] = h[1] /\ x[Len(w) + 2] = h[2]
  <2>1. x[Len(w) + 1] = y[Len(w) + 1] /\ x[Len(w) + 2] = y[Len(w) + 2]
    <3>1. /\ Len(w) + 1 \in 1 .. Len(w) + 3 + Len(p) /\ Len(w) + 1 <= Len(w) + 2
          /\ Len(w) + 2 \in 1 .. Len(w) + 3 + Len(p) /\ Len(w) + 2 <= Len(w) + 2
      BY <1>1
    <3> QED BY <3>1, <1>6
  <2>2. y[Len(w) + 1] = h[(Len(w) + 1) - Len(w)] /\ y[Len(w) + 2] = h[(Len(w) + 2) - Len(w)]
    <3>1. /\ Len(w) + 1 \in 1 .. Len(w) + 2 /\ ~(Len(w) + 1 <= Len(w))
          /\ Len(w) + 2 \in 1 .. Len(w) + 2 /\ ~(Len(w) + 2 <= Len(w))
      BY <1>1
    <3> QED BY <3>1, <1>4
  <2>3. (Len(w) + 1) - Len(w) = 1 /\ (Len(w) + 2) - Len(w) = 2
    BY <1>1
  <2> QED BY <2>1, <2>2, <2>3
<1>9. ASSUME NEW i \in 1 .. Len(p) + 1 PROVE x[Len(w) + 2 + i] = c[i]
  <2>1. /\ Len(w) + 2 + i \in 1 .. Len(w) + 3 + Len(p) /\ ~(Len(w) + 2 + i <= Len(w) + 2)
        /\ Len(w) + 2 + i - (Len(w) + 2) = i
    BY <1>1
  <2> QED BY <2>1, <1>6
<1> QED BY <1>2, <1>3, <1>6, <1>7, <1>8, <1>9 DEF Appended

\* What HandOut makes of what it is given.
LEMMA HandedOut ==
    ASSUME NEW b \in Seq(Nat), out \in Seq(Nat), HandOut(b)
    PROVE  /\ out' \in Seq(Nat) /\ buf' \in Seq(Nat)
           /\ Len(out') \in Nat /\ Len(out') >= Len(out) /\ Len(out') + Len(buf') = Len(out) + Len(b)
           /\ \A i \in 1 .. Len(out') : out'[i] = IF i <= Len(out) THEN out[i] ELSE b[i - Len(out)]
           /\ \A i \in 1 .. Len(buf') : buf'[i] = b[Len(out') - Len(out) + i]
<1> DEFINE n == IF Len(b) < BufLen THEN Len(b) ELSE BufLen
<1>1. Len(b) \in Nat /\ Len(out) \in Nat /\ \A i \in 1 .. Len(b) : b[i] \in Nat
  BY LenProperties, ElementOfSeq
<1>2. n \in 0 .. Len(b)
  BY <1>1, StreamAssumption
<1>3. out' = out \o SubSeq(b, 1, n) /\ buf' = SubSeq(b, n + 1, Len(b))
  BY DEF HandOut
<1> HIDE DEF n
<1>4. /\ SubSeq(b, 1, n) \in Seq(Nat) /\ Len(SubSeq(b, 1, n)) = n
      /\ \A i \in 1 .. n : SubSeq(b, 1, n)[i] = b[i]
  <2>1. \A i \in 1 .. n : b[i] \in Nat
    BY <1>1, <1>2
  <2>2. /\ SubSeq(b, 1, n) \in Seq(Nat)
        /\ Len(SubSeq(b, 1, n)) = IF 1 <= n THEN n - 1 + 1 ELSE 0
        /\ \A i \in 1 .. n - 1 + 1 : SubSeq(b, 1, n)[i] = b[1 + i - 1]
    BY <1>2, <2>1, SubSeqProperties
  <2> QED BY <1>2, <2>2
<1>5. /\ buf' \in Seq(Nat) /\ Len(buf') = Len(b) - n
      /\ \A i \in 1 .. Len(b) - n : buf'[i] = b[n + i]
  <2>1. \A i \in n + 1 .. Len(b) : b[i] \in Nat
    BY <1>1, <1>2
  <2>2. /\ buf' \in Seq(Nat)
        /\ Len(buf') = IF n + 1 <= Len(b) THEN Len(b) - (n + 1) + 1 ELSE 0
        /\ \A i \in 1 .. Len(b) - (n + 1) + 1 : buf'[i] = b[n + 1 + i - 1]
    BY <1>1, <1>2, <1>3, <2>1, SubSeqProperties
  <2> QED BY <1>1, <1>2, <2>2
<1>6. /\ out' \in Seq(Nat) /\ Len(out') = Len(out) + n
      /\ \A i \in 1 .. Len(out) + n : out'[i] = IF i <= Len(out) THEN out[i] ELSE SubSeq(b, 1, n)[i - Len(out)]
  BY <1>3, <1>4, ConcatProperties
<1>7. ASSUME NEW i \in 1 .. Len(out')
      PROVE  out'[i] = IF i <= Len(out) THEN out[i] ELSE b[i - Len(out)]
  BY <1>1, <1>2, <1>4, <1>6
<1> QED BY <1>1, <1>2, <1>5, <1>6, <1>7
-----------------------------------------------------------------------------
(* The writer. *)

\* The lengths are numbers.
LEMMA Lengths ==
    ASSUME StreamTypes
    PROVE  /\ Len(plain) \in Nat /\ Len(wire) \in Nat /\ Len(out) \in Nat /\ Len(buf) \in Nat
           /\ frames \in Nat /\ closes \in Nat /\ pos \in Nat
<1>1. Len(plain) \in Nat /\ Len(wire) \in Nat /\ Len(out) \in Nat /\ Len(buf) \in Nat
  BY LenProperties DEF StreamTypes, StreamTypeOK
<1> QED BY <1>1, StreamAssumption DEF StreamTypes, StreamTypeOK

\* Frame k has three units more than its payload.
LEMMA Widths ==
    ASSUME NEW a \in Nat, NEW b \in Nat, NEW c \in Nat, NEW k \in Nat, NEW f \in Nat,
           a <= b, b <= c, 1 <= k, k <= f
    PROVE  /\ 2 + b + 3 * k = 2 + a + 3 * (k - 1) + 3 + (b - a)
           /\ 2 + b + 3 * k <= 2 + c + 3 * f
           /\ 2 + a + 3 * (k - 1) \in Nat
  OBVIOUS

\* The frames that have been written lie within the wire.
LEMMA FrameEnds ==
    ASSUME StreamTypes, NEW off \in Offsets, Layout(off),
           NEW k \in 1 .. frames
    PROVE  /\ off[k] \in Nat /\ off[k + 1] \in Nat /\ off[k] <= off[k + 1] /\ off[k + 1] <= Len(plain)
           /\ Start(off, k + 1) = Start(off, k) + 3 + (off[k + 1] - off[k])
           /\ Start(off, k + 1) <= Start(off, frames + 1)
           /\ Start(off, k) \in Nat
<1>1. frames \in Nat /\ Len(plain) \in Nat
  BY Lengths
<1>2. k \in 1 .. frames + 1 /\ k + 1 \in 1 .. frames + 1 /\ frames + 1 \in 1 .. frames + 1
  BY <1>1
<1>3. off[k] \in 0 .. Len(plain) /\ off[k + 1] \in 0 .. Len(plain) /\ off[frames + 1] \in 0 .. Len(plain)
  BY <1>2 DEF Offsets
<1>4. off[k] <= off[k + 1] /\ off[k + 1] <= off[frames + 1]
  BY <1>1, <1>2 DEF Layout
<1>5. /\ off[k] \in Nat /\ off[k + 1] \in Nat /\ off[frames + 1] \in Nat
      /\ off[k] <= off[k + 1] /\ off[k + 1] <= Len(plain)
  BY <1>1, <1>3, <1>4
<1>6. /\ Start(off, k) = 2 + off[k] + 3 * (k - 1) /\ Start(off, k + 1) = 2 + off[k + 1] + 3 * k
      /\ Start(off, frames + 1) = 2 + off[frames + 1] + 3 * frames
  BY <1>1, <1>5 DEF Start
<1>7. k \in Nat /\ 1 <= k /\ k <= frames
  BY <1>1
<1>8. PICK a \in Nat, b \in Nat, c \in Nat : a = off[k] /\ b = off[k + 1] /\ c = off[frames + 1]
  BY <1>5
<1>9. /\ 2 + b + 3 * k = 2 + a + 3 * (k - 1) + 3 + (b - a)
      /\ 2 + b + 3 * k <= 2 + c + 3 * frames
      /\ 2 + a + 3 * (k - 1) \in Nat
  <2>1. a <= b /\ b <= c
    BY <1>4, <1>8
  <2> QED BY <1>1, <1>7, <2>1, Widths
<1> QED BY <1>5, <1>6, <1>8, <1>9

\* A frame stays as it is while the writer goes on, and when it is cut.
LEMMA FrameKept ==
    ASSUME StreamTypes, ~cut, NEW off \in Offsets, Layout(off),
           NEW k \in 1 .. frames, NEW o, o[k] = off[k], o[k + 1] = off[k + 1],
           \A i \in 1 .. Len(plain) : plain'[i] = plain[i],
           \A i \in 1 .. Len(wire) : i <= Len(wire') => wire'[i] = wire[i]
    PROVE  Frame(o, k)'
<1>1. Len(plain) \in Nat /\ Len(wire) \in Nat /\ frames \in Nat
  BY Lengths
<1>2. /\ off[k] \in Nat /\ off[k + 1] \in Nat /\ off[k] <= off[k + 1] /\ off[k + 1] <= Len(plain)
      /\ Start(off, k) \in Nat /\ Start(off, k + 1) = Start(off, k) + 3 + (off[k + 1] - off[k])
      /\ Start(off, k + 1) <= Start(off, frames + 1)
  BY FrameEnds
<1>3. closes \in Nat /\ Start(off, frames + 1) \in Nat
      /\ Len(wire) = Start(off, frames + 1) + 2 * closes
  BY <1>1, Lengths DEF Layout, Start
<1>4. PICK s \in Nat, d \in Nat, a \in Nat :
         s = Start(off, k) /\ d = off[k + 1] - off[k] /\ a = off[k]
  BY <1>2
<1>5. s + 3 + d <= Len(wire) /\ a + d <= Len(plain)
  BY <1>1, <1>2, <1>3, <1>4, SMTT(60)
<1>6. /\ wire[s + 1] = [kind |-> "nonce", value |-> k] /\ wire[s + 2] = [kind |-> "len", value |-> d + 1]
      /\ \A i \in 1 .. d + 1 :
           wire[s + 2 + i] = [kind |-> "ct", nonce |-> k, at |-> i, len |-> d + 1,
                              hides |-> IF i <= d THEN plain[a + i] ELSE 0]
  <2>1. s + 1 <= Len(wire) /\ s + 2 <= Len(wire) /\ \A i \in 1 .. d + 1 : s + 2 + i <= Len(wire)
    BY <1>1, <1>5
  <2>2. Frame(off, k)
    BY DEF Layout
  <2> QED BY <1>4, <2>1, <2>2 DEF Frame
<1>7. /\ s + 1 <= Len(wire') => wire'[s + 1] = wire[s + 1]
      /\ s + 2 <= Len(wire') => wire'[s + 2] = wire[s + 2]
  <2>1. s + 1 \in 1 .. Len(wire) /\ s + 2 \in 1 .. Len(wire)
    BY <1>1, <1>5
  <2> QED BY <2>1
<1>8. ASSUME NEW i \in 1 .. d + 1, s + 2 + i <= Len(wire')
      PROVE  wire'[s + 2 + i] = [kind |-> "ct", nonce |-> k, at |-> i, len |-> d + 1,
                                 hides |-> IF i <= d THEN plain'[a + i] ELSE 0]
  <2>1. s + 2 + i \in 1 .. Len(wire)
    BY <1>1, <1>5
  <2>2. wire'[s + 2 + i] = wire[s + 2 + i]
    BY <1>8, <2>1
  <2>3. ASSUME i <= d PROVE plain'[a + i] = plain[a + i]
    <3>1. a + i \in 1 .. Len(plain)
      BY <1>1, <1>5, <2>3
    <3> QED BY <3>1
  <2> QED BY <1>6, <2>2, <2>3
<1>9. Start(o, k) = s /\ o[k + 1] - o[k] = d /\ o[k] = a
  BY <1>4 DEF Start
<1> QED BY <1>6, <1>7, <1>8, <1>9 DEF Frame, Start

\* EncryptStream has sent the salt and nothing else.
LEMMA InitStream == StreamInit => StreamInv
<1> SUFFICES ASSUME StreamInit PROVE StreamInv
  OBVIOUS
<1> USE DEF StreamInit
<1>1. /\ plain = <<>> /\ wire = <<Salt, Salt>> /\ Len(plain) = 0 /\ Len(wire) = 2
      /\ plain \in Seq(Nat) /\ wire \in Seq(Unit) /\ Len(out) = 0 /\ Len(buf) = 0
  BY DEF Unit
<1>2. StreamTypes
  <2>1. StreamTypeOK
    <3>1. 0 \in 0 .. MaxWrites /\ 1 \in 1 .. MaxWrites + 1 /\ 0 \in 0 .. Len(wire)
      BY <1>1, StreamAssumption
    <3> QED BY <1>1, <3>1 DEF StreamTypeOK
  <2>2. counter = frames + 1
    OBVIOUS
  <2> QED BY <1>1, <2>1, <2>2 DEF StreamTypes
<1>3. Handed
  BY <1>1 DEF Handed
<1>4. \E off \in Offsets : Layout(off) /\ Standing(off)
  <2>1. PICK off : off = [k \in 1 .. 1 |-> 0]
    OBVIOUS
  <2>2. off \in Offsets /\ off[1] = 0
    BY <1>1, <2>1 DEF Offsets
  <2>3. Layout(off) /\ Standing(off)
    BY <1>1, <2>2 DEF Layout, Start, Standing
  <2> QED BY <2>2, <2>3
<1> QED BY <1>2, <1>3, <1>4 DEF StreamInv, NoFalseAlarm

\* Write lays out one more frame; the payload is longer by its slice.
LEMMA WriteStep ==
    ASSUME StreamInv, NEW n \in 0 .. MaxLen, Write(Slice(n))
    PROVE  StreamInv'
<1>a. StreamTypes /\ ~cut /\ closes = 0 /\ reader = "wait" /\ frames < MaxWrites
  BY DEF StreamInv, StreamTypes, Write
<1>b. /\ Len(plain) \in Nat /\ Len(wire) \in Nat /\ frames \in Nat /\ n \in Nat
      /\ plain \in Seq(Nat) /\ wire \in Seq(Unit) /\ counter = frames + 1
  BY <1>a, Lengths, StreamAssumption DEF StreamTypes, StreamTypeOK
<1>c. PICK off \in Offsets : Layout(off)
  BY DEF StreamInv
<1>d. off[1] = 0 /\ off[frames + 1] = Len(plain) /\ Len(wire) = Start(off, frames + 1)
  BY <1>a, <1>b, <1>c DEF Layout, Start
<1>1. PICK p : p = Slice(n)
  OBVIOUS
<1>2. p \in Seq(Nat) /\ Len(p) = n
  <2>1. p \in [1 .. n -> Nat]
    BY <1>b, <1>1 DEF Slice
  <2> QED BY <1>b, <2>1, UnitByUnit
<1>3. /\ plain' = plain \o p /\ wire' = wire \o Header(frames + 1, Len(p) + 1) \o Seal(frames + 1, p)
      /\ frames' = frames + 1 /\ counter' = counter + 1
      /\ UNCHANGED <<closes, cut, pos, buf, out, reader>>
  BY <1>b, <1>1 DEF Write, readerVars
<1>4. /\ plain' \in Seq(Nat) /\ Len(plain') = Len(plain) + n
      /\ \A i \in 1 .. Len(plain) + n : plain'[i] = IF i <= Len(plain) THEN plain[i] ELSE p[i - Len(plain)]
  BY <1>b, <1>2, <1>3, ConcatProperties
<1>5. /\ wire' \in Seq(Unit) /\ Len(wire') = Len(wire) + 3 + n
      /\ \A i \in 1 .. Len(wire) : wire'[i] = wire[i]
      /\ wire'[Len(wire) + 1] = [kind |-> "nonce", value |-> frames + 1]
      /\ wire'[Len(wire) + 2] = [kind |-> "len", value |-> n + 1]
      /\ \A i \in 1 .. n + 1 :
            wire'[Len(wire) + 2 + i] = [kind |-> "ct", nonce |-> frames + 1, at |-> i, len |-> n + 1,
                                        hides |-> IF i <= n THEN p[i] ELSE 0]
  <2>1. frames + 1 \in Nat
    BY <1>b
  <2>2. Appended(wire', wire, frames + 1, p)
    BY <1>b, <1>2, <1>3, <2>1, Written
  <2> QED BY <1>2, <2>2 DEF Appended
<1>6. StreamTypes'
  BY <1>a, <1>b, <1>3, <1>4, <1>5, StreamAssumption DEF StreamTypes, StreamTypeOK
<1>7. Len(out') = 0 /\ Len(buf') = 0 /\ Handed'
  BY <1>a, <1>b, <1>3, <1>4 DEF StreamTypes, Handed
<1>8. PICK o : o = [k \in 1 .. frames + 2 |-> IF k <= frames + 1 THEN off[k] ELSE Len(plain) + n]
  OBVIOUS
<1>9. /\ o \in Offsets'
      /\ \A k \in 1 .. frames + 1 : o[k] = off[k]
      /\ o[frames + 2] = Len(plain) + n
  <2>1. /\ frames' + 1 = frames + 2 /\ Len(plain') = Len(plain) + n
        /\ frames + 2 \in 1 .. frames + 2 /\ ~(frames + 2 <= frames + 1)
    BY <1>b, <1>3, <1>4
  <2>2. \A k \in 1 .. frames + 1 : off[k] \in 0 .. Len(plain) + n /\ k \in 1 .. frames + 2 /\ k <= frames + 1
    BY <1>b DEF Offsets
  <2>3. \A k \in 1 .. frames + 1 : o[k] = off[k]
    BY <1>8, <2>2
  <2>4. o[frames + 2] = Len(plain) + n
    BY <1>8, <2>1
  <2>5. \A k \in 1 .. frames + 2 : o[k] \in 0 .. Len(plain) + n
    <3> SUFFICES ASSUME NEW k \in 1 .. frames + 2 PROVE o[k] \in 0 .. Len(plain) + n
      OBVIOUS
    <3>1. CASE k \in 1 .. frames + 1
      BY <2>2, <2>3, <3>1
    <3>2. CASE k = frames + 2
      BY <1>b, <2>4, <3>2
    <3> QED BY <1>b, <3>1, <3>2
  <2>6. o \in [1 .. frames + 2 -> 0 .. Len(plain) + n]
    BY <1>8, <2>5
  <2> QED BY <2>1, <2>3, <2>4, <2>6 DEF Offsets
<1>10. Layout(o)'
  <2>1. o[1] = 0 /\ o[frames' + 1] = Len(plain')
    <3>1. 1 \in 1 .. frames + 1 /\ frames' + 1 = frames + 2
      BY <1>b, <1>3
    <3> QED BY <1>b, <1>d, <1>4, <1>9, <3>1
  <2>2. \A k, m \in 1 .. frames' + 1 : k <= m => o[k] <= o[m]
    <3> SUFFICES ASSUME NEW k \in 1 .. frames + 2, NEW m \in 1 .. frames + 2, k <= m PROVE o[k] <= o[m]
      BY <1>b, <1>3
    <3>1. CASE m <= frames + 1
      <4>1. k \in 1 .. frames + 1 /\ m \in 1 .. frames + 1
        BY <1>b, <3>1
      <4> QED BY <1>c, <1>9, <4>1 DEF Layout
    <3>2. CASE m = frames + 2
      <4>1. o[k] \in 0 .. Len(plain) + n
        BY <1>b, <1>3, <1>4, <1>9 DEF Offsets
      <4> QED BY <1>b, <1>9, <3>2, <4>1
    <3> QED BY <1>b, <3>1, <3>2
  <2>3. ASSUME NEW k \in 1 .. frames PROVE Frame(o, k)'
    <3>1. o[k] = off[k] /\ o[k + 1] = off[k + 1]
      <4>1. k \in 1 .. frames + 1 /\ k + 1 \in 1 .. frames + 1
        BY <1>b
      <4> QED BY <4>1, <1>9
    <3>2. \A i \in 1 .. Len(plain) : plain'[i] = plain[i]
      BY <1>b, <1>4
    <3> QED BY <1>a, <1>b, <1>c, <1>5, <3>1, <3>2, FrameKept
  <2>4. ASSUME NEW k \in Nat, k = frames + 1 PROVE Frame(o, k)'
    <3>1. o[frames + 1] = Len(plain) /\ o[frames + 2] - o[frames + 1] = n
      <4>1. frames + 1 \in 1 .. frames + 1
        BY <1>b
      <4>2. o[frames + 1] = Len(plain)
        BY <1>d, <1>9, <4>1
      <4>3. Len(plain) + n - Len(plain) = n
        BY <1>b
      <4> QED BY <1>9, <4>2, <4>3
    <3>2. Start(o, frames + 1) = Len(wire) /\ (frames + 1) + 1 = frames + 2
      BY <1>b, <1>d, <3>1 DEF Start
    <3>3. ASSUME NEW i \in 1 .. n PROVE plain'[Len(plain) + i] = p[i]
      <4>1. /\ Len(plain) + i \in 1 .. Len(plain) + n /\ ~(Len(plain) + i <= Len(plain))
            /\ (Len(plain) + i) - Len(plain) = i
        BY <1>b
      <4> QED BY <1>4, <4>1
    <3>4. PICK w \in Nat : w = Len(wire)
      BY <1>b
    <3>5. o[k] = Len(plain) /\ o[k + 1] - o[k] = n /\ Start(o, k) = w
      BY <2>4, <3>1, <3>2, <3>4
    <3>6. /\ wire'[w + 1] = [kind |-> "nonce", value |-> k]
          /\ wire'[w + 2] = [kind |-> "len", value |-> n + 1]
          /\ \A i \in 1 .. n + 1 :
                wire'[w + 2 + i] = [kind |-> "ct", nonce |-> k, at |-> i, len |-> n + 1,
                                    hides |-> IF i <= n THEN p[i] ELSE 0]
      BY <1>5, <2>4, <3>4
    <3>7. \A i \in 1 .. n + 1 : i <= n => plain'[o[k] + i] = p[i]
      BY <1>b, <3>3, <3>5
    <3> QED BY <3>5, <3>6, <3>7 DEF Frame, Start
  <2>5. \A k \in 1 .. frames' : Frame(o, k)'
    <3> SUFFICES ASSUME NEW k \in 1 .. frames + 1 PROVE Frame(o, k)'
      BY <1>3
    <3>1. k \in 1 .. frames \/ k = frames + 1
      BY <1>b
    <3> QED BY <1>b, <2>3, <2>4, <3>1
  <2>6. Start(o, frames' + 1) = Len(wire') /\ closes' = 0 /\ Len(wire') \in Nat
    <3>1. /\ o[frames' + 1] = Len(plain) + n /\ Len(wire) = 2 + Len(plain) + 3 * (frames + 1 - 1)
          /\ frames' + 1 - 1 = frames + 1
      BY <1>b, <1>d, <1>3, <1>9 DEF Start
    <3>2. 2 + (Len(plain) + n) + 3 * (frames + 1) = Len(wire) + 3 + n
      BY <1>b, <3>1
    <3> QED BY <1>a, <1>b, <1>3, <1>5, <3>1, <3>2 DEF Start
  <2> QED BY <2>1, <2>2, <2>5, <2>6 DEF Layout, Start
<1>11. Standing(o)' /\ NoFalseAlarm' /\ reader' # "eof"
  BY <1>a, <1>3 DEF Standing, NoFalseAlarm
<1> QED BY <1>6, <1>7, <1>9, <1>10, <1>11 DEF StreamInv

\* Each of the two Close calls adds a header of zeroes.
LEMMA CloseStep ==
    ASSUME StreamInv, Close
    PROVE  StreamInv'
<1>a. StreamTypes /\ ~cut /\ closes \in {0, 1} /\ reader = "wait"
  BY DEF StreamInv, StreamTypes, StreamTypeOK, Close
<1>b. Len(plain) \in Nat /\ Len(wire) \in Nat /\ frames \in Nat /\ wire \in Seq(Unit)
  BY <1>a, Lengths DEF StreamTypes
<1>c. PICK off \in Offsets : Layout(off)
  BY DEF StreamInv
<1>1. /\ wire' = wire \o Header(0, 0) /\ closes' = closes + 1
      /\ UNCHANGED <<plain, frames, counter, cut, pos, buf, out, reader>>
  BY DEF Close, readerVars
<1>2. /\ wire' \in Seq(Unit) /\ Len(wire') = Len(wire) + 2
      /\ \A i \in 1 .. Len(wire) : wire'[i] = wire[i]
      /\ wire'[Len(wire) + 1].value = 0 /\ wire'[Len(wire) + 2].value = 0
  <2>1. PICK h : h = Header(0, 0)
    OBVIOUS
  <2>2. h \in Seq(Unit) /\ Len(h) = 2 /\ h[1].value = 0 /\ h[2].value = 0
    <3>1. /\ h \in Seq(Unit) /\ Len(h) = 2
          /\ h[1] = [kind |-> "nonce", value |-> 0] /\ h[2] = [kind |-> "len", value |-> 0]
      BY <2>1, HeaderUnits, Zenon
    <3> QED BY <3>1
  <2>3. /\ wire' \in Seq(Unit) /\ Len(wire') = Len(wire) + 2
        /\ \A i \in 1 .. Len(wire) + 2 : wire'[i] = IF i <= Len(wire) THEN wire[i] ELSE h[i - Len(wire)]
    <3>1. /\ wire \o h \in Seq(Unit) /\ Len(wire \o h) = Len(wire) + Len(h)
          /\ \A i \in 1 .. Len(wire) + Len(h) :
               (wire \o h)[i] = IF i <= Len(wire) THEN wire[i] ELSE h[i - Len(wire)]
      BY <1>b, <2>2, ConcatProperties, Zenon
    <3> QED BY <1>1, <2>1, <2>2, <3>1
  <2>4. /\ Len(wire) + 1 \in 1 .. Len(wire) + 2 /\ ~(Len(wire) + 1 <= Len(wire))
        /\ Len(wire) + 2 \in 1 .. Len(wire) + 2 /\ ~(Len(wire) + 2 <= Len(wire))
        /\ (Len(wire) + 1) - Len(wire) = 1 /\ (Len(wire) + 2) - Len(wire) = 2
        /\ \A i \in 1 .. Len(wire) : i \in 1 .. Len(wire) + 2 /\ i <= Len(wire)
    BY <1>b
  <2>5. wire'[Len(wire) + 1] = h[1] /\ wire'[Len(wire) + 2] = h[2]
    BY <2>3, <2>4
  <2> QED BY <2>2, <2>3, <2>4, <2>5
<1>3. StreamTypes'
  <2>1. StreamTypeOK'
    BY <1>a, <1>b, <1>1, <1>2 DEF StreamTypes, StreamTypeOK
  <2> QED BY <1>a, <1>1, <1>2, <2>1 DEF StreamTypes
<1>4. Layout(off)'
  <2>1. PICK e \in Nat : e = Start(off, frames + 1) /\ Len(wire) = e + 2 * closes
    BY <1>a, <1>b, <1>c DEF Layout, Start
  <2>2. \A k \in 1 .. frames : Frame(off, k)'
    BY <1>a, <1>b, <1>c, <1>1, <1>2, FrameKept
  <2>3. ASSUME NEW j \in 1 .. 2 * (closes + 1) PROVE wire'[e + j].value = 0
    <3>1. CASE j \in 1 .. 2 * closes
      <4>1. e + j \in 1 .. Len(wire)
        BY <1>a, <1>b, <2>1, <3>1
      <4>2. wire[e + j].value = 0
        BY <1>c, <2>1, <3>1, <4>1 DEF Layout
      <4> QED BY <1>2, <4>1, <4>2
    <3>2. CASE j = 2 * closes + 1
      <4>1. e + j = Len(wire) + 1
        BY <1>a, <2>1, <3>2
      <4> QED BY <1>2, <4>1
    <3>3. CASE j = 2 * closes + 2
      <4>1. e + j = Len(wire) + 2
        BY <1>a, <2>1, <3>3
      <4> QED BY <1>2, <4>1
    <3> QED BY <1>a, <3>1, <3>2, <3>3
  <2>4. Len(wire') = e + 2 * (closes + 1) /\ Len(wire') \in Nat
    BY <1>a, <1>b, <1>2, <2>1
  <2>5. Start(off, frames + 1)' = e
    BY <1>1, <2>1 DEF Start
  <2>6. \A j \in 1 .. 2 * closes' : e + j <= Len(wire') => wire'[e + j].value = 0
    BY <1>1, <2>3
  <2>7. Len(wire') <= e + 2 * closes' /\ Len(wire') = e + 2 * closes'
    BY <1>1, <2>4
  <2> QED BY <1>c, <1>1, <2>2, <2>5, <2>6, <2>7 DEF Layout
<1>5. Handed'
  BY <1>1 DEF StreamInv, Handed
<1>6. Standing(off)' /\ NoFalseAlarm' /\ reader' # "eof"
  BY <1>a, <1>1 DEF Standing, NoFalseAlarm
<1>7. off \in Offsets'
  BY <1>c, <1>1 DEF Offsets
<1> QED BY <1>1, <1>3, <1>4, <1>5, <1>6, <1>7 DEF StreamInv

\* What is left of a wire that is cut is still laid out as before.
LEMMA CutStep ==
    ASSUME StreamInv, NEW n \in 0 .. Len(wire), Cut(n)
    PROVE  StreamInv'
<1>a. StreamTypes /\ ~cut /\ reader = "wait"
  BY DEF StreamInv, StreamTypes, Cut
<1>b. Len(plain) \in Nat /\ Len(wire) \in Nat /\ frames \in Nat /\ closes \in Nat /\ wire \in Seq(Unit)
  BY <1>a, Lengths DEF StreamTypes
<1>c. PICK off \in Offsets : Layout(off)
  BY DEF StreamInv
<1>1. /\ wire' = SubSeq(wire, 1, n) /\ cut' = TRUE /\ reader' = "salt"
      /\ UNCHANGED <<plain, frames, counter, closes, pos, buf, out>>
  BY DEF Cut
<1>2. wire' \in Seq(Unit) /\ Len(wire') = n /\ \A i \in 1 .. n : wire'[i] = wire[i]
  <2>1. \A i \in 1 .. n : wire[i] \in Unit
    BY <1>b, ElementOfSeq
  <2>2. /\ wire' \in Seq(Unit)
        /\ Len(wire') = IF 1 <= n THEN n - 1 + 1 ELSE 0
        /\ \A i \in 1 .. n - 1 + 1 : wire'[i] = wire[1 + i - 1]
    BY <1>b, <1>1, <2>1, SubSeqProperties
  <2> QED BY <1>b, <2>2
<1>3. StreamTypes'
  <2>1. StreamTypeOK'
    BY <1>a, <1>b, <1>1, <1>2 DEF StreamTypes, StreamTypeOK
  <2> QED BY <1>a, <1>1, <1>2, <2>1 DEF StreamTypes
<1>4. Layout(off)'
  <2>1. PICK e \in Nat : e = Start(off, frames + 1) /\ Len(wire) = e + 2 * closes
    BY <1>a, <1>b, <1>c DEF Layout, Start
  <2>2. \A k \in 1 .. frames : Frame(off, k)'
    <3>1. \A i \in 1 .. Len(wire) : i <= Len(wire') => wire'[i] = wire[i]
      BY <1>b, <1>2
    <3> QED BY <1>a, <1>b, <1>c, <1>1, <3>1, FrameKept
  <2>3. ASSUME NEW j \in 1 .. 2 * closes, e + j <= Len(wire') PROVE wire'[e + j].value = 0
    <3>1. e + j \in 1 .. n /\ e + j <= Len(wire)
      BY <1>b, <1>2, <2>1, <2>3
    <3> QED BY <1>c, <1>2, <2>1, <3>1 DEF Layout
  <2>4. Len(wire') <= e + 2 * closes
    BY <1>b, <1>2, <2>1
  <2>5. Start(off, frames + 1)' = e
    BY <1>1, <2>1 DEF Start
  <2> QED BY <1>c, <1>1, <2>2, <2>3, <2>4, <2>5 DEF Layout, Start
<1>5. Handed'
  BY <1>1 DEF StreamInv, Handed
<1>6. Standing(off)' /\ NoFalseAlarm' /\ reader' # "eof"
  BY <1>1 DEF Standing, NoFalseAlarm
<1>7. off \in Offsets'
  BY <1>c, <1>1 DEF Offsets
<1> QED BY <1>1, <1>3, <1>4, <1>5, <1>6, <1>7 DEF StreamInv
-----------------------------------------------------------------------------
(* The reader. *)

\* The reader does not change the wire.
LEMMA LayoutUnread ==
    ASSUME UNCHANGED writerVars, NEW off, Layout(off)
    PROVE  Layout(off)'
<1>1. \A k \in 1 .. frames : Frame(off, k)' = Frame(off, k)
  BY DEF Frame, Start, writerVars
<1> QED BY <1>1 DEF Layout, Start, writerVars

\* Two units from the middle of a sequence.
LEMMA TwoUnits ==
    ASSUME NEW w \in Seq(Unit), NEW a \in Nat, a + 2 <= Len(w)
    PROVE  SubSeq(w, a + 1, a + 2)[1] = w[a + 1] /\ SubSeq(w, a + 1, a + 2)[2] = w[a + 2]
<1>1. PICK n \in Nat, l \in Nat, h \in Nat : n = 2 /\ l = a + 1 /\ h = a + 2
  OBVIOUS
<1>2. \A i \in 1 .. n : SubSeq(w, l, h)[i] = w[a + i]
  BY <1>1, PartOf
<1> QED BY <1>1, <1>2

\* What ReadFull of a header finds: that of a frame, or of the end.
LEMMA HeaderRead ==
    ASSUME StreamTypes, NEW off \in Offsets, Layout(off),
           NEW k \in 1 .. frames + 1, pos = Start(off, k), Left >= 2
    PROVE  /\ k \in 1 .. frames => Next2[1].value = k /\ Next2[2].value = off[k + 1] - off[k] + 1
           /\ k = frames + 1 => closes > 0 /\ Next2[2].value = 0
<1>1. /\ Len(wire) \in Nat /\ pos \in Nat /\ frames \in Nat /\ closes \in Nat /\ wire \in Seq(Unit)
      /\ pos + 2 <= Len(wire)
  BY Lengths DEF Left, StreamTypes
<1>2. Next2[1] = wire[pos + 1] /\ Next2[2] = wire[pos + 2]
  BY <1>1, TwoUnits DEF Next2
<1>3. ASSUME k \in 1 .. frames
      PROVE  Next2[1].value = k /\ Next2[2].value = off[k + 1] - off[k] + 1
  <2>1. Frame(off, k)
    BY <1>3 DEF Layout
  <2> QED BY <1>1, <1>2, <2>1 DEF Frame
<1>4. ASSUME k = frames + 1 PROVE closes > 0 /\ Next2[2].value = 0
  <2>1. Len(wire) <= pos + 2 * closes
    BY <1>4 DEF Layout
  <2>2. closes > 0 /\ 2 \in 1 .. 2 * closes
    BY <1>1, <2>1
  <2>3. wire[pos + 2].value = 0
    BY <1>1, <1>4, <2>2 DEF Layout
  <2> QED BY <1>2, <2>2, <2>3
<1> QED BY <1>3, <1>4

\* What DecryptStream reads of a frame after its header.
Ciphertext(len) == SubSeq(wire, pos + 3, pos + 2 + len)

\* The units after the header at s, when all d + 1 of them are there.
LEMMA CiphertextUnits ==
    ASSUME NEW w \in Seq(Unit), NEW s \in Nat, NEW d \in Nat, s + 3 + d <= Len(w)
    PROVE  /\ SubSeq(w, s + 3, s + 2 + (d + 1)) \in Seq(Unit)
           /\ Len(SubSeq(w, s + 3, s + 2 + (d + 1))) = d + 1
           /\ \A i \in 1 .. d + 1 : SubSeq(w, s + 3, s + 2 + (d + 1))[i] = w[s + 2 + i]
<1>1. PICK b \in Nat, e \in Nat, l \in Nat, h \in Nat : b = s + 2 /\ e = d + 1 /\ l = s + 3 /\ h = s + 2 + (d + 1)
  <2>1. s + 2 \in Nat /\ d + 1 \in Nat /\ s + 3 \in Nat /\ s + 2 + (d + 1) \in Nat
    OBVIOUS
  <2> QED BY <2>1, Zenon
<1>2. b + e <= Len(w) /\ l = b + 1 /\ h = b + e
  BY <1>1, LenProperties
<1>3. /\ SubSeq(w, l, h) \in Seq(Unit) /\ Len(SubSeq(w, l, h)) = e
      /\ \A i \in 1 .. e : SubSeq(w, l, h)[i] = w[b + i]
  BY <1>2, PartOf
<1> QED BY <1>1, <1>3

\* After the header at s, w has d units of p from a on, sealed under n.
Sealed(w, s, n, d, p, a) ==
    \A i \in 1 .. d + 1 :
       w[s + 2 + i] = [kind |-> "ct", nonce |-> n, at |-> i, len |-> d + 1,
                       hides |-> IF i <= d THEN p[a + i] ELSE 0]

\* c opens under n, to d units of p from a on.
OpensTo(c, n, d, p, a) ==
    /\ Opens(n, c) /\ Open(c) \in Seq(Nat) /\ Len(Open(c)) = d
    /\ \A i \in 1 .. d : Open(c)[i] = p[a + i]

\* A ciphertext that is all there opens under its nonce, to its payload.
LEMMA Opened ==
    ASSUME NEW w \in Seq(Unit), NEW p \in Seq(Nat), NEW n \in Nat, NEW s \in Nat, NEW a \in Nat, NEW d \in Nat,
           s + 3 + d <= Len(w), a + d <= Len(p),
           Sealed(w, s, n, d, p, a)
    PROVE  OpensTo(SubSeq(w, s + 3, s + 2 + (d + 1)), n, d, p, a)
<1>0. PICK c : c = SubSeq(w, s + 3, s + 2 + (d + 1))
  OBVIOUS
<1>1. PICK q : q = [i \in 1 .. d |-> p[a + i]]
  OBVIOUS
<1>2. q \in [1 .. d -> Nat]
  <2>1. \A i \in 1 .. d : a + i \in 1 .. Len(p)
    BY LenProperties
  <2>2. \A i \in 1 .. d : p[a + i] \in Nat
    BY <2>1, ElementOfSeq
  <2> QED BY <1>1, <2>2
<1>3. c \in Seq(Unit) /\ Len(c) = d + 1 /\ \A i \in 1 .. d + 1 : c[i] = w[s + 2 + i]
  BY <1>0, CiphertextUnits, Zenon
<1>4. \A i \in 1 .. d + 1 : c[i] = [kind |-> "ct", nonce |-> n, at |-> i, len |-> d + 1,
                                 hides |-> IF i <= d THEN q[i] ELSE 0]
  <2> SUFFICES ASSUME NEW i \in 1 .. d + 1
               PROVE  c[i] = [kind |-> "ct", nonce |-> n, at |-> i, len |-> d + 1,
                              hides |-> IF i <= d THEN q[i] ELSE 0]
    OBVIOUS
  <2>1. c[i] = [kind |-> "ct", nonce |-> n, at |-> i, len |-> d + 1,
                hides |-> IF i <= d THEN p[a + i] ELSE 0]
    BY <1>3, Zenon DEF Sealed
  <2>2. i <= d => q[i] = p[a + i]
    BY <1>1
  <2> QED BY <2>1, <2>2
<1>5. /\ Opens(n, c) /\ Open(c) \in Seq(Nat) /\ Len(Open(c)) = d
      /\ \A i \in 1 .. d : Open(c)[i] = q[i]
  BY <1>2, <1>3, <1>4, Unsealed
<1> QED BY <1>0, <1>1, <1>5 DEF OpensTo

\* The same of frame k, where the reader stands.
LEMMA FrameRead ==
    ASSUME StreamTypes, NEW off \in Offsets, Layout(off),
           NEW k \in 1 .. frames, pos = Start(off, k),
           NEW d \in Nat, d = off[k + 1] - off[k], Left >= 2 + (d + 1)
    PROVE  OpensTo(Ciphertext(d + 1), k, d, plain, off[k])
<1>1. /\ Len(wire) \in Nat /\ pos \in Nat /\ k \in Nat /\ Len(plain) \in Nat
      /\ wire \in Seq(Unit) /\ plain \in Seq(Nat)
  BY Lengths DEF StreamTypes, StreamTypeOK
<1>2. off[k] \in Nat /\ off[k + 1] \in Nat /\ off[k + 1] <= Len(plain)
  BY FrameEnds
<1>3. PICK a \in Nat, b \in Nat, s \in Nat, l \in Nat, m \in Nat :
         a = off[k] /\ b = off[k + 1] /\ s = pos /\ l = Len(wire) /\ m = Len(plain)
  BY <1>1, <1>2
<1>4. a + d <= m /\ s + 3 + d <= l
  <2>1. d = b - a /\ b <= m /\ l - s >= 2 + (d + 1)
    BY <1>2, <1>3 DEF Left
  <2> QED BY <2>1
<1>5. Sealed(wire, s, k, d, plain, a)
  <2>1. Frame(off, k)
    BY DEF Layout
  <2>2. \A i \in 1 .. d + 1 : s + 2 + i <= l
    BY <1>4
  <2> QED BY <1>3, <2>1, <2>2 DEF Frame, Sealed
<1>6. s + 3 + d <= Len(wire) /\ a + d <= Len(plain)
  BY <1>3, <1>4
<1>7. OpensTo(SubSeq(wire, s + 3, s + 2 + (d + 1)), k, d, plain, a)
  BY <1>1, <1>5, <1>6, Opened, Zenon
<1> QED BY <1>3, <1>7 DEF Ciphertext

\* An error of the reader, at a frame that the wire does not hold as a whole.
LEMMA ErrorStep ==
    ASSUME StreamInv, reader = "read", Truncated,
           NEW off \in Offsets, Layout(off),
           Len(wire) < Start(off, frames + 1) + 2
    PROVE  StreamInv'
<1>a. StreamTypes
  BY DEF StreamInv
<1>1. reader' = "error" /\ UNCHANGED <<plain, frames, counter, closes, wire, cut, pos, buf, out>>
  BY DEF Truncated, writerVars
<1>2. StreamTypes'
  <2>1. StreamTypeOK'
    BY <1>a, <1>1 DEF StreamTypes, StreamTypeOK
  <2> QED BY <1>a, <1>1, <2>1 DEF StreamTypes
<1>3. Layout(off)' /\ Standing(off)'
  BY <1>1, LayoutUnread DEF Standing, writerVars
<1>4. Handed'
  BY <1>1 DEF StreamInv, Handed
<1>5. NoFalseAlarm'
  <2>1. Start(off, frames + 1) = 2 + Len(plain) + 3 * frames
    BY <1>a, Lengths DEF Layout, Start
  <2>2. 2 * (1 + frames) + Len(plain) + frames + 2 = 2 + Len(plain) + 3 * frames + 2
    BY <1>a, Lengths
  <2> QED BY <1>1, <2>1, <2>2 DEF NoFalseAlarm
<1>6. off \in Offsets'
  BY <1>1 DEF Offsets
<1> QED BY <1>1, <1>2, <1>3, <1>4, <1>5, <1>6 DEF StreamInv

\* What a step of the reader leaves alone, if it stands where a frame begins.
LEMMA ReaderKeeps ==
    ASSUME StreamTypes, UNCHANGED writerVars, reader = "read" \/ reader = "salt",
           reader' \in {"read", "eof", "error"}, pos' \in Nat, pos' <= Len(wire),
           buf' \in Seq(Nat), out' \in Seq(Nat)
    PROVE  StreamTypes'
<1>1. /\ pos' \in 0 .. Len(wire')
      /\ UNCHANGED <<plain, frames, counter, closes, wire, cut>>
  BY Lengths DEF writerVars
<1>2. StreamTypeOK'
  BY <1>1 DEF StreamTypes, StreamTypeOK
<1>3. cut /\ reader' # "wait" /\ reader' # "salt"
  BY DEF StreamTypes
<1> QED BY <1>1, <1>2, <1>3 DEF StreamTypes

\* ReadFull of the salt succeeds, unless the wire was cut within it.
LEMMA DecryptStreamStep ==
    ASSUME StreamInv, DecryptStream
    PROVE  StreamInv'
<1>a. StreamTypes /\ reader = "salt" /\ pos = 0 /\ out = <<>> /\ buf = <<>>
  BY DEF StreamInv, StreamTypes, DecryptStream
<1>b. Len(wire) \in Nat /\ Len(plain) \in Nat /\ frames \in Nat /\ Len(out) = 0 /\ Len(buf) = 0
  BY <1>a, Lengths
<1>c. PICK off \in Offsets : Layout(off)
  BY DEF StreamInv
<1>d. UNCHANGED writerVars /\ buf' = buf /\ out' = out
  BY DEF DecryptStream
<1>e. UNCHANGED <<plain, frames, counter, closes, wire, cut>>
  BY <1>d DEF writerVars
<1>1. Handed'
  BY <1>d, <1>e DEF StreamInv, Handed
<1>2. off \in Offsets' /\ Layout(off)'
  BY <1>c, <1>d, <1>e, LayoutUnread DEF Offsets
<1>3. CASE Left >= 2
  <2>1. reader' = "read" /\ pos' = 2 /\ Len(wire) >= 2
    BY <1>a, <1>b, <1>3 DEF DecryptStream, Left
  <2>2. StreamTypes'
    <3>1. buf \in Seq(Nat) /\ out \in Seq(Nat)
      BY <1>a DEF StreamTypes, StreamTypeOK
    <3> QED BY <1>a, <1>b, <1>d, <2>1, <3>1, ReaderKeeps
  <2>3. Standing(off)'
    <3>1. 1 \in 1 .. frames + 1 /\ off[1] = 0
      BY <1>b, <1>c DEF Layout
    <3>2. Start(off, 1) = 2
      BY <3>1 DEF Start
    <3>3. \E k \in 1 .. frames' + 1 : pos' = Start(off, k) /\ Len(out') + Len(buf') = off[k]
      BY <1>b, <1>d, <1>e, <2>1, <3>1, <3>2
    <3> QED BY <3>3 DEF Standing, Start
  <2> QED BY <1>1, <1>2, <2>1, <2>2, <2>3 DEF StreamInv, NoFalseAlarm
<1>4. CASE ~(Left >= 2)
  <2>1. reader' = "error" /\ pos' = pos /\ Len(wire) < 2
    BY <1>a, <1>b, <1>4 DEF DecryptStream, Left
  <2>2. StreamTypes'
    <3>1. buf \in Seq(Nat) /\ out \in Seq(Nat)
      BY <1>a DEF StreamTypes, StreamTypeOK
    <3> QED BY <1>a, <1>b, <1>d, <2>1, <3>1, ReaderKeeps
  <2>3. NoFalseAlarm'
    BY <1>b, <1>e, <2>1 DEF NoFalseAlarm
  <2>4. Standing(off)'
    BY <2>1 DEF Standing
  <2> QED BY <1>1, <1>2, <2>1, <2>2, <2>3, <2>4 DEF StreamInv
<1> QED BY <1>3, <1>4

\* HandOut passes on a piece of the payload that the reader has come to.
LEMMA PayloadHandedOut ==
    ASSUME StreamTypes, NEW b \in Seq(Nat), HandOut(b), UNCHANGED plain,
           Len(out) + Len(b) <= Len(plain),
           \A i \in 1 .. Len(out) : out[i] = plain[i],
           \A i \in 1 .. Len(b) : b[i] = plain[Len(out) + i]
    PROVE  /\ Handed' /\ out' \in Seq(Nat) /\ buf' \in Seq(Nat)
           /\ Len(out') + Len(buf') = Len(out) + Len(b)
<1>1. Len(out) \in Nat /\ Len(b) \in Nat /\ Len(plain) \in Nat /\ out \in Seq(Nat)
  BY Lengths, LenProperties DEF StreamTypes, StreamTypeOK
<1>2. /\ out' \in Seq(Nat) /\ buf' \in Seq(Nat)
      /\ Len(out') \in Nat /\ Len(out') >= Len(out) /\ Len(out') + Len(buf') = Len(out) + Len(b)
      /\ \A i \in 1 .. Len(out') : out'[i] = IF i <= Len(out) THEN out[i] ELSE b[i - Len(out)]
      /\ \A i \in 1 .. Len(buf') : buf'[i] = b[Len(out') - Len(out) + i]
  BY <1>1, HandedOut
<1>3. Len(buf') \in Nat
  BY <1>2, LenProperties
<1>4. PICK m \in Nat, n \in Nat, m2 \in Nat, n2 \in Nat :
         m = Len(out) /\ n = Len(b) /\ m2 = Len(out') /\ n2 = Len(buf')
  BY <1>1, <1>2, <1>3
<1>5. m2 >= m /\ m2 + n2 = m + n
  BY <1>2, <1>4
<1>6. ASSUME NEW i \in 1 .. m2 PROVE out'[i] = plain[i]
  <2>1. out'[i] = IF i <= m THEN out[i] ELSE b[i - m]
    BY <1>2, <1>4
  <2>2. CASE i <= m
    <3>1. i \in 1 .. m
      BY <2>2
    <3> QED BY <1>4, <2>1, <2>2, <3>1
  <2>3. CASE ~(i <= m)
    <3>1. i - m \in 1 .. n /\ m + (i - m) = i
      BY <1>5, <2>3
    <3>2. b[i - m] = plain[m + (i - m)]
      BY <1>4, <3>1
    <3> QED BY <2>1, <2>3, <3>1, <3>2
  <2> QED BY <2>2, <2>3
<1>7. ASSUME NEW i \in 1 .. n2 PROVE buf'[i] = plain[m2 + i]
  <2>1. m2 - m + i \in 1 .. n /\ m + (m2 - m + i) = m2 + i
    BY <1>5
  <2>2. buf'[i] = b[m2 - m + i]
    BY <1>2, <1>4
  <2>3. b[m2 - m + i] = plain[m + (m2 - m + i)]
    BY <1>4, <2>1
  <2> QED BY <2>1, <2>2, <2>3
<1>8. Len(out') + Len(buf') <= Len(plain)
  BY <1>2
<1>9. plain' = plain
  OBVIOUS
<1> QED BY <1>2, <1>4, <1>6, <1>7, <1>8, <1>9 DEF Handed

\* Read hands out more of what it has decrypted.
LEMMA ReadBufferedStep ==
    ASSUME StreamInv, ReadBuffered
    PROVE  StreamInv'
<1>a. StreamTypes /\ Handed /\ reader = "read" /\ HandOut(buf)
  BY DEF StreamInv, ReadBuffered
<1>b. buf \in Seq(Nat) /\ out \in Seq(Nat) /\ Len(wire) \in Nat /\ pos \in Nat /\ pos <= Len(wire)
  BY <1>a, Lengths DEF StreamTypes, StreamTypeOK
<1>c. PICK off \in Offsets : Layout(off) /\ Standing(off)
  BY DEF StreamInv
<1>d. UNCHANGED writerVars /\ pos' = pos /\ reader' = "read"
  BY <1>a DEF ReadBuffered
<1>e. UNCHANGED <<plain, frames, counter, closes, wire, cut>>
  BY <1>d DEF writerVars
<1>1. /\ Handed' /\ out' \in Seq(Nat) /\ buf' \in Seq(Nat)
      /\ Len(out') + Len(buf') = Len(out) + Len(buf)
  BY <1>a, <1>b, <1>e, PayloadHandedOut DEF Handed
<1>2. StreamTypes'
  BY <1>a, <1>b, <1>d, <1>1, ReaderKeeps
<1>3. off \in Offsets' /\ Layout(off)'
  BY <1>c, <1>d, <1>e, LayoutUnread DEF Offsets
<1>4. Standing(off)'
  <2>1. PICK k \in 1 .. frames + 1 : pos = Start(off, k) /\ Len(out) + Len(buf) = off[k]
    BY <1>a, <1>c DEF Standing
  <2>2. k \in 1 .. frames' + 1 /\ pos' = Start(off, k) /\ Len(out') + Len(buf') = off[k]
    BY <1>d, <1>e, <1>1, <2>1
  <2> QED BY <2>2 DEF Standing, Start
<1> QED BY <1>d, <1>1, <1>2, <1>3, <1>4 DEF StreamInv, NoFalseAlarm

\* Where the reader stands, when it has handed out all that it has decrypted.
LEMMA AtFrame ==
    ASSUME StreamInv, reader = "read", buf = <<>>, NEW off \in Offsets, Layout(off), Standing(off)
    PROVE  \E k \in 1 .. frames + 1 :
              pos = Start(off, k) /\ Len(out) = off[k] /\ (k \in 1 .. frames \/ k = frames + 1)
<1>1. PICK k \in 1 .. frames + 1 : pos = Start(off, k) /\ Len(out) + Len(buf) = off[k]
  BY DEF Standing
<1>2. Len(out) \in Nat /\ Len(buf) = 0 /\ frames \in Nat
  BY Lengths DEF StreamInv
<1> QED BY <1>1, <1>2

\* The wire reaches no further than the reader has come and 2 units more.
LEMMA EndNotHeld ==
    ASSUME StreamTypes, NEW off \in Offsets, Layout(off), NEW k \in 1 .. frames + 1, pos = Start(off, k)
    PROVE  /\ Left < 2 => Len(wire) < Start(off, frames + 1) + 2
           /\ k \in 1 .. frames /\ Left < 2 + (off[k + 1] - off[k] + 1) => Len(wire) < Start(off, frames + 1) + 2
<1>1. frames \in Nat /\ Len(wire) \in Nat /\ pos \in Nat
  BY Lengths
<1>2. CASE k = frames + 1
  BY <1>1, <1>2 DEF Left
<1>3. CASE k \in 1 .. frames
  <2>1. /\ off[k] \in Nat /\ off[k + 1] \in Nat /\ off[k] <= off[k + 1]
        /\ Start(off, k + 1) = Start(off, k) + 3 + (off[k + 1] - off[k])
        /\ Start(off, k + 1) <= Start(off, frames + 1)
    BY <1>3, FrameEnds
  <2>2. off[frames + 1] \in Nat /\ Start(off, frames + 1) \in Nat
    <3>1. frames + 1 \in 1 .. frames + 1 /\ Len(plain) \in Nat
      BY <1>1, Lengths
    <3>2. off[frames + 1] \in Nat
      BY <3>1 DEF Offsets
    <3> QED BY <1>1, <3>2 DEF Start
  <2>3. PICK a \in Nat, b \in Nat, e \in Nat, l \in Nat, s \in Nat :
           a = off[k] /\ b = off[k + 1] /\ e = Start(off, frames + 1) /\ l = Len(wire) /\ s = pos
    BY <1>1, <2>1, <2>2
  <2>4. a <= b /\ s + 3 + (b - a) <= e
    BY <2>1, <2>3
  <2>5. l - s < 2 => l < e + 2
    BY <2>4
  <2>6. l - s < 2 + (b - a + 1) => l < e + 2
    BY <2>4
  <2> QED BY <2>3, <2>5, <2>6 DEF Left
<1> QED BY <1>1, <1>2, <1>3

\* A header that is not all there: the wire was cut before its EOF frame.
LEMMA ReadHeaderFailsStep ==
    ASSUME StreamInv, ReadHeaderFails
    PROVE  StreamInv'
<1>1. StreamTypes /\ reader = "read" /\ buf = <<>> /\ Left < 2 /\ Truncated
  BY DEF StreamInv, ReadHeaderFails
<1>2. PICK off \in Offsets : Layout(off) /\ Standing(off)
  BY DEF StreamInv
<1>3. PICK k \in 1 .. frames + 1 : pos = Start(off, k)
  BY <1>1, <1>2, AtFrame
<1>4. Len(wire) < Start(off, frames + 1) + 2
  BY <1>1, <1>2, <1>3, EndNotHeld
<1> QED BY <1>1, <1>2, <1>4, ErrorStep

\* A header of zeroes is the end: no frame has a length of 0.
LEMMA ReadEOFStep ==
    ASSUME StreamInv, ReadEOF
    PROVE  StreamInv'
<1>a. /\ StreamTypes /\ Handed /\ reader = "read" /\ buf = <<>> /\ Left >= 2 /\ Next2[2].value = 0
      /\ UNCHANGED writerVars /\ reader' = "eof" /\ pos' = pos + 2 /\ buf' = buf /\ out' = out
  BY DEF StreamInv, ReadEOF
<1>b. PICK off \in Offsets : Layout(off) /\ Standing(off)
  BY DEF StreamInv
<1>c. UNCHANGED <<plain, frames, counter, closes, wire, cut>>
  BY <1>a DEF writerVars
<1>1. PICK k \in 1 .. frames + 1 :
         pos = Start(off, k) /\ Len(out) = off[k] /\ (k \in 1 .. frames \/ k = frames + 1)
  BY <1>a, <1>b, AtFrame
<1>2. k = frames + 1 /\ closes > 0
  <2>1. ASSUME k \in 1 .. frames PROVE FALSE
    <3>1. off[k] \in Nat /\ off[k + 1] \in Nat /\ off[k] <= off[k + 1]
      BY <1>a, <1>b, <2>1, FrameEnds
    <3>2. off[k + 1] - off[k] + 1 = 0
      BY <1>a, <1>b, <1>1, <2>1, HeaderRead
    <3> QED BY <3>1, <3>2
  <2>2. k = frames + 1
    BY <1>1, <2>1
  <2> QED BY <1>a, <1>b, <1>1, <2>2, HeaderRead
<1>3. Len(out) = Len(plain)
  BY <1>b, <1>1, <1>2 DEF Layout
<1>4. StreamTypes'
  <2>1. pos' \in Nat /\ pos' <= Len(wire) /\ buf \in Seq(Nat) /\ out \in Seq(Nat)
    BY <1>a, Lengths DEF Left, StreamTypes, StreamTypeOK
  <2> QED BY <1>a, <2>1, ReaderKeeps
<1>5. off \in Offsets' /\ Layout(off)' /\ Standing(off)'
  BY <1>a, <1>b, <1>c, LayoutUnread DEF Offsets, Standing
<1>6. Handed'
  BY <1>a, <1>c DEF Handed
<1> QED BY <1>a, <1>c, <1>2, <1>3, <1>4, <1>5, <1>6 DEF StreamInv, NoFalseAlarm

\* A frame is read and opened, or was cut.
LEMMA ReadFrameStep ==
    ASSUME StreamInv, ReadFrame
    PROVE  StreamInv'
<1>a. StreamTypes /\ Handed /\ reader = "read" /\ buf = <<>> /\ Left >= 2 /\ Next2[2].value > 0
  BY DEF StreamInv, ReadFrame
<1>b. PICK off \in Offsets : Layout(off) /\ Standing(off)
  BY DEF StreamInv
<1>1. PICK k \in 1 .. frames + 1 :
         pos = Start(off, k) /\ Len(out) = off[k] /\ (k \in 1 .. frames \/ k = frames + 1)
  BY <1>a, <1>b, AtFrame
<1>2. k \in 1 .. frames
  <2>1. ASSUME k = frames + 1 PROVE FALSE
    <3>1. Next2[2].value = 0
      BY <1>a, <1>b, <1>1, <2>1, HeaderRead
    <3> QED BY <1>a, <3>1
  <2> QED BY <1>1, <2>1
<1>3. /\ off[k] \in Nat /\ off[k + 1] \in Nat /\ off[k] <= off[k + 1] /\ off[k + 1] <= Len(plain)
      /\ Start(off, k + 1) = Start(off, k) + 3 + (off[k + 1] - off[k])
  BY <1>a, <1>b, <1>2, FrameEnds
<1>4. PICK d \in Nat : d = off[k + 1] - off[k]
  BY <1>3
<1>5. Next2[1].value = k /\ Next2[2].value = d + 1
  BY <1>a, <1>b, <1>1, <1>2, <1>4, HeaderRead
<1>6. IF Left < 2 + (d + 1) \/ ~Opens(k, Ciphertext(d + 1))
      THEN Truncated
      ELSE /\ HandOut(Open(Ciphertext(d + 1)))
           /\ pos' = pos + 2 + (d + 1)
           /\ UNCHANGED <<writerVars, reader>>
  BY <1>5 DEF ReadFrame, Ciphertext
<1>7. CASE Left < 2 + (d + 1)
  <2>1. Len(wire) < Start(off, frames + 1) + 2
    BY <1>a, <1>b, <1>1, <1>2, <1>4, <1>7, EndNotHeld
  <2> QED BY <1>a, <1>b, <1>6, <1>7, <2>1, ErrorStep
<1>8. CASE ~(Left < 2 + (d + 1))
  <2>1. Left >= 2 + (d + 1)
    BY <1>8, <1>a, Lengths DEF Left
  <2>2. OpensTo(Ciphertext(d + 1), k, d, plain, off[k])
    BY <1>a, <1>b, <1>1, <1>2, <1>4, <2>1, FrameRead
  <2>3. PICK b : b = Open(Ciphertext(d + 1))
    OBVIOUS
  <2>4. /\ Opens(k, Ciphertext(d + 1)) /\ b \in Seq(Nat) /\ Len(b) = d
        /\ \A i \in 1 .. d : b[i] = plain[off[k] + i]
    BY <2>2, <2>3 DEF OpensTo
  <2>5. HandOut(b) /\ pos' = pos + 2 + (d + 1) /\ UNCHANGED writerVars /\ reader' = reader
    BY <1>6, <1>8, <2>3, <2>4
  <2>6. UNCHANGED <<plain, frames, counter, closes, wire, cut>>
    BY <2>5 DEF writerVars
  <2>7. /\ Handed' /\ out' \in Seq(Nat) /\ buf' \in Seq(Nat)
        /\ Len(out') + Len(buf') = Len(out) + Len(b)
    <3>1. Len(out) + Len(b) <= Len(plain)
      BY <1>1, <1>3, <1>4, <2>4
    <3>2. \A i \in 1 .. Len(b) : b[i] = plain[Len(out) + i]
      BY <1>1, <2>4
    <3>3. \A i \in 1 .. Len(out) : out[i] = plain[i]
      BY <1>a DEF Handed
    <3> QED BY <1>a, <2>4, <2>5, <2>6, <3>1, <3>2, <3>3, PayloadHandedOut
  <2>8. StreamTypes'
    <3>1. pos' \in Nat /\ pos' <= Len(wire)
      BY <1>a, <2>1, <2>5, Lengths DEF Left
    <3> QED BY <1>a, <2>5, <2>7, <3>1, ReaderKeeps
  <2>9. off \in Offsets' /\ Layout(off)'
    BY <1>b, <2>5, <2>6, LayoutUnread DEF Offsets
  <2>10. Standing(off)'
    <3>1. PICK m \in 1 .. frames + 1 : m = k + 1
      BY <1>a, <1>2, Lengths
    <3>2. pos' = Start(off, m)
      BY <1>1, <1>3, <1>4, <2>5, <3>1, <1>a, Lengths
    <3>3. Len(out') + Len(buf') = off[m]
      BY <1>1, <1>3, <1>4, <2>4, <2>7, <3>1
    <3>4. m \in 1 .. frames' + 1 /\ pos' = Start(off, m)
      BY <2>6, <3>1, <3>2
    <3> QED BY <3>3, <3>4 DEF Standing, Start
  <2> QED BY <1>a, <2>5, <2>7, <2>8, <2>9, <2>10 DEF StreamInv, NoFalseAlarm
<1> QED BY <1>7, <1>8

\* Nothing changes.
LEMMA StreamStutters ==
    ASSUME StreamInv, UNCHANGED streamVars
    PROVE  StreamInv'
<1>1. PICK off \in Offsets : Layout(off) /\ Standing(off)
  BY DEF StreamInv
<1>2. /\ UNCHANGED <<plain, frames, counter, closes, wire, cut>>
      /\ UNCHANGED <<pos, buf, out, reader>>
  BY DEF streamVars, writerVars, readerVars
<1>3. off \in Offsets' /\ Layout(off)' /\ Standing(off)'
  <2>1. UNCHANGED writerVars
    BY <1>2 DEF writerVars
  <2> QED BY <1>1, <1>2, <2>1, LayoutUnread DEF Offsets, Standing, Start
<1>4. StreamTypes' /\ Handed' /\ NoFalseAlarm'
  BY <1>2 DEF StreamInv, StreamTypes, StreamTypeOK, Handed, NoFalseAlarm
<1> QED BY <1>2, <1>3, <1>4 DEF StreamInv

\* EncryptStream and DecryptStream: the wire is laid out frame by frame, cut
\* or not, and the reader stands between two frames with what they hide.
THEOREM StreamIsLaidOut == StreamSpec => []StreamInv
<1>1. StreamInit => StreamInv
  BY InitStream
<1>2. StreamInv /\ [StreamNext]_streamVars => StreamInv'
  <2> SUFFICES ASSUME StreamInv, [StreamNext]_streamVars PROVE StreamInv'
    OBVIOUS
  <2>1. ASSUME NEW n \in 0 .. MaxLen, Write(Slice(n)) PROVE StreamInv'
    BY <2>1, WriteStep
  <2>2. CASE Close
    BY <2>2, CloseStep
  <2>3. ASSUME NEW n \in 0 .. Len(wire), Cut(n) PROVE StreamInv'
    BY <2>3, CutStep
  <2>4. CASE DecryptStream
    BY <2>4, DecryptStreamStep
  <2>5. CASE ReadBuffered
    BY <2>5, ReadBufferedStep
  <2>6. CASE ReadHeaderFails
    BY <2>6, ReadHeaderFailsStep
  <2>7. CASE ReadEOF
    BY <2>7, ReadEOFStep
  <2>8. CASE ReadFrame
    BY <2>8, ReadFrameStep
  <2>9. CASE UNCHANGED streamVars
    BY <2>9, StreamStutters
  <2> QED BY <2>1, <2>2, <2>3, <2>4, <2>5, <2>6, <2>7, <2>8, <2>9
          DEF StreamNext, WriterStep, ReaderStep, Ended
<1> QED BY <1>1, <1>2, PTL DEF StreamSpec

\* What decryptReader has handed out is a prefix of what was written, for
\* every payload, every slicing of it, every cut and every size of the slices
\* of the reader.
THEOREM DecryptsAPrefix == StreamSpec => []DecryptsPrefix
<1>1. StreamInv => DecryptsPrefix
  <2> SUFFICES ASSUME StreamInv PROVE DecryptsPrefix
    OBVIOUS
  <2>1. /\ out \in Seq(Nat) /\ buf \in Seq(Nat) /\ plain \in Seq(Nat)
        /\ Len(out) \in Nat /\ Len(buf) \in Nat /\ Len(plain) \in Nat
    BY Lengths DEF StreamInv, StreamTypes, StreamTypeOK
  <2>2. /\ Len(out) + Len(buf) <= Len(plain)
        /\ \A i \in 1 .. Len(out) : out[i] = plain[i]
        /\ \A i \in 1 .. Len(buf) : buf[i] = plain[Len(out) + i]
    BY DEF StreamInv, Handed
  <2>3. PICK t : t = out \o buf
    OBVIOUS
  <2>4. /\ t \in Seq(Nat) /\ Len(t) = Len(out) + Len(buf)
        /\ \A i \in 1 .. Len(out) + Len(buf) : t[i] = IF i <= Len(out) THEN out[i] ELSE buf[i - Len(out)]
    BY <2>1, <2>3, ConcatProperties
  <2>5. PICK m \in Nat, n \in Nat : m = Len(out) /\ n = Len(buf)
    BY <2>1
  <2>6. ASSUME NEW i \in 1 .. m + n PROVE t[i] = plain[i]
    <3>1. t[i] = IF i <= m THEN out[i] ELSE buf[i - m]
      BY <2>4, <2>5
    <3>2. CASE i <= m
      <4>1. i \in 1 .. m
        BY <3>2
      <4> QED BY <2>2, <2>5, <3>1, <3>2, <4>1
    <3>3. CASE ~(i <= m)
      <4>1. i - m \in 1 .. n /\ m + (i - m) = i
        BY <3>3
      <4>2. buf[i - m] = plain[m + (i - m)]
        BY <2>2, <2>5, <4>1
      <4> QED BY <3>1, <3>3, <4>1, <4>2
    <3> QED BY <3>2, <3>3
  <2>7. m + n \in Nat /\ Len(t) = m + n /\ m + n <= Len(t) /\ m + n <= Len(plain)
    BY <2>2, <2>4, <2>5
  <2>8. /\ SubSeq(t, 1, m + n) \in Seq(Nat) /\ Len(SubSeq(t, 1, m + n)) = m + n
        /\ \A i \in 1 .. m + n : SubSeq(t, 1, m + n)[i] = t[i]
    BY <2>4, <2>7, FirstUnits, Zenon
  <2>9. /\ SubSeq(plain, 1, m + n) \in Seq(Nat) /\ Len(SubSeq(plain, 1, m + n)) = m + n
        /\ \A i \in 1 .. m + n : SubSeq(plain, 1, m + n)[i] = plain[i]
    BY <2>1, <2>7, FirstUnits, Zenon
  <2>10. SubSeq(t, 1, m + n) = SubSeq(plain, 1, m + n)
    <3>1. \A i \in 1 .. Len(SubSeq(t, 1, m + n)) : SubSeq(t, 1, m + n)[i] = SubSeq(plain, 1, m + n)[i]
      BY <2>6, <2>8, <2>9
    <3> QED BY <2>8, <2>9, <3>1, SeqEqual, Zenon
  <2>11. IsPrefix(t, plain)
    BY <2>7, <2>10 DEF IsPrefix
  <2> QED BY <2>3, <2>11 DEF DecryptsPrefix
<1> QED BY <1>1, StreamIsLaidOut, PTL

\* DecryptStream reports the end of the stream only when Close was called and
\* the whole payload has been handed out.
THEOREM TruncationIsDetected == StreamSpec => []TruncationDetected
<1>1. StreamInv => TruncationDetected
  <2> SUFFICES ASSUME StreamInv, reader = "eof" PROVE closes > 0 /\ out = plain
    BY DEF TruncationDetected
  <2>1. out \in Seq(Nat) /\ plain \in Seq(Nat)
    BY DEF StreamInv, StreamTypes, StreamTypeOK
  <2>2. closes > 0 /\ Len(out) = Len(plain) /\ \A i \in 1 .. Len(out) : out[i] = plain[i]
    BY DEF StreamInv, Handed
  <2>3. out = plain
    BY <2>1, <2>2, SeqEqual, Zenon
  <2> QED BY <2>2, <2>3
<1> QED BY <1>1, StreamIsLaidOut, PTL

\* DecryptStream gives no error on a stream of which nothing was lost.
THEOREM NoAlarmIsFalse == StreamSpec => []NoFalseAlarm
<1>1. StreamInv => NoFalseAlarm
  BY DEF StreamInv
<1> QED BY <1>1, StreamIsLaidOut, PTL

\* The type invariant of the framed stream.
THEOREM StreamTypeCorrect == StreamSpec => []StreamTypeOK
<1>1. StreamInv => StreamTypeOK
  BY DEF StreamInv, StreamTypes
<1> QED BY <1>1, StreamIsLaidOut, PTL
=============================================================================
