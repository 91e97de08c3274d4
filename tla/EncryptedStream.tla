-------------------------- MODULE EncryptedStream --------------------------
(***************************************************************************)
(* The framed stream of the encryption service                             *)
(* (src/internal/encryption/service.go, EncryptStream and DecryptStream):  *)
(*                                                                         *)
(*     salt (nonce frameLen ciphertext)* EOF-frame                         *)
(*                                                                         *)
(* where an EOF frame is a header of zeroes.  The writer may be stopped    *)
(* after any number of bytes (a failed upload, a crash), and the reader    *)
(* gets what has been written by then, through a buffer of any size.       *)
(*                                                                         *)
(* The unit of data is a "byte" of payload; a ciphertext has one unit more *)
(* than its plaintext (the GCM tag), a header two (nonce and frameLen).    *)
(* Sealing is symbolic: a ciphertext unit knows its nonce, its place and   *)
(* what it hides, and Open accepts exactly what Seal has made.             *)
(*                                                                         *)
(* Names that every module has begin with "Stream" here, so that the       *)
(* pipeline and its stream can be extended by one module (their proofs).   *)
(***************************************************************************)
EXTENDS Integers, Sequences, SequencesExt

CONSTANTS MaxWrites,   \* bound: calls of encryptWriter.Write
          MaxLen,      \* bound: length of the slice of one call (0 is legal)
          BufLen       \* length of the slice given to decryptReader.Read

ASSUME StreamAssumption ==
    MaxWrites \in Nat /\ MaxLen \in Nat /\ BufLen \in Nat \ {0}

VARIABLES
    plain,     \* the payload written so far
    frames,    \* calls of Write so far
    counter,   \* encryptWriter.counter
    closes,    \* calls of Close: runFullBackup makes two
    wire,      \* what the destination has received
    cut,       \* the destination takes nothing more
    pos,       \* units of the wire the reader has consumed
    buf, out,  \* decryptReader: decrypted and not yet handed out; handed out
    reader     \* "wait" (for the wire), "salt", "read", "eof" or "error"

writerVars == <<plain, frames, counter, closes, wire, cut>>
readerVars == <<pos, buf, out, reader>>
streamVars == <<writerVars, readerVars>>

Salt == [kind |-> "salt"]
Header(nonce, len) == <<[kind |-> "nonce", value |-> nonce], [kind |-> "len", value |-> len]>>
Seal(nonce, p) ==
    [i \in 1 .. Len(p) + 1 |->
        [kind |-> "ct", nonce |-> nonce, at |-> i, len |-> Len(p) + 1,
         hides |-> IF i <= Len(p) THEN p[i] ELSE 0]]
Opens(nonce, ct) ==
    \A i \in 1 .. Len(ct) : ct[i].kind = "ct" /\ ct[i].nonce = nonce /\ ct[i].at = i /\ ct[i].len = Len(ct)
Open(ct) == [i \in 1 .. Len(ct) - 1 |-> ct[i].hides]

StreamInit ==
    /\ plain = <<>> /\ frames = 0 /\ counter = 1 /\ closes = 0
    /\ wire = <<Salt, Salt>> /\ cut = FALSE
    /\ pos = 0 /\ buf = <<>> /\ out = <<>> /\ reader = "wait"

-----------------------------------------------------------------------------
(* Definitions named "...Bug" are variants with a plausible mistake, which a *)
(* property must reject; no specification uses them.                         *)

WriteUntaggedBug(p) == \* frameLen without the tag: an empty frame looks like EOF
    /\ ~cut /\ closes = 0 /\ frames < MaxWrites
    /\ wire' = wire \o Header(counter, Len(p))
                    \o (IF p = <<>> THEN <<>> ELSE Seal(counter, p))
    /\ plain' = plain \o p
    /\ frames' = frames + 1 /\ counter' = counter + 1
    /\ UNCHANGED <<closes, cut, readerVars>>

\* Write seals its slice under the next nonce; an empty slice has a tag too.
Write(p) ==
    /\ ~cut /\ closes = 0 /\ frames < MaxWrites
    /\ wire' = wire \o Header(counter, Len(p) + 1) \o Seal(counter, p)
    /\ plain' = plain \o p
    /\ frames' = frames + 1 /\ counter' = counter + 1
    /\ UNCHANGED <<closes, cut, readerVars>>

Close ==
    /\ ~cut /\ closes < 2
    /\ wire' = wire \o Header(0, 0)
    /\ closes' = closes + 1
    /\ UNCHANGED <<plain, frames, counter, cut, readerVars>>

\* The destination fails in the middle of a call, or the writer has ended.
Cut(n) ==
    /\ ~cut
    /\ wire' = SubSeq(wire, 1, n)
    /\ cut' = TRUE
    /\ reader' = "salt"
    /\ UNCHANGED <<plain, frames, counter, closes, pos, buf, out>>

-----------------------------------------------------------------------------
(* The reader. *)
Left == Len(wire) - pos
Next2 == SubSeq(wire, pos + 1, pos + 2)

\* io.ReadFull of the salt, in DecryptStream.
DecryptStream ==
    /\ reader = "salt"
    /\ IF Left >= 2 THEN reader' = "read" /\ pos' = pos + 2
                    ELSE reader' = "error" /\ UNCHANGED pos
    /\ UNCHANGED <<writerVars, buf, out>>

HandOut(b) ==
    LET n == IF Len(b) < BufLen THEN Len(b) ELSE BufLen IN
    /\ out' = out \o SubSeq(b, 1, n)
    /\ buf' = SubSeq(b, n + 1, Len(b))

ReadBuffered ==
    /\ reader = "read" /\ buf # <<>>
    /\ HandOut(buf)
    /\ UNCHANGED <<writerVars, pos, reader>>

\* io.ReadFull wraps io.EOF in an error of its own, so that a stream that
\* ends between two frames is an error to io.Copy, and not its end.
Truncated ==
    /\ reader' = "error"
    /\ UNCHANGED <<writerVars, pos, buf, out>>

ReadFrameEofBug == \* a stream that ends between two frames is taken as complete
    /\ reader = "read" /\ buf = <<>> /\ Left < 2
    /\ IF Left = 0 THEN reader' = "eof" ELSE reader' = "error"
    /\ UNCHANGED <<writerVars, pos, buf, out>>

ReadHeaderRetryBug == \* a short header is not an error: the caller tries again
    /\ reader = "read" /\ buf = <<>> /\ Left < 2
    /\ UNCHANGED streamVars

ReadHeaderFails ==
    /\ reader = "read" /\ buf = <<>> /\ Left < 2
    /\ Truncated

ReadEOF ==
    /\ reader = "read" /\ buf = <<>> /\ Left >= 2 /\ Next2[2].value = 0
    /\ reader' = "eof" /\ pos' = pos + 2
    /\ UNCHANGED <<writerVars, buf, out>>

ReadFrameDropBug == \* what does not fit the caller's slice is lost
    /\ reader = "read" /\ buf = <<>> /\ Left >= 2 /\ Next2[2].value > 0
    /\ LET len == Next2[2].value
           ct == SubSeq(wire, pos + 3, pos + 2 + len)
           n == IF len - 1 < BufLen THEN len - 1 ELSE BufLen
       IN IF Left < 2 + len \/ ~Opens(Next2[1].value, ct)
          THEN Truncated
          ELSE /\ out' = out \o SubSeq(Open(ct), 1, n)
               /\ pos' = pos + 2 + len
               /\ UNCHANGED <<writerVars, reader, buf>>

ReadFrame ==
    /\ reader = "read" /\ buf = <<>> /\ Left >= 2 /\ Next2[2].value > 0
    /\ LET len == Next2[2].value
           ct == SubSeq(wire, pos + 3, pos + 2 + len)
       IN IF Left < 2 + len \/ ~Opens(Next2[1].value, ct)
          THEN Truncated
          ELSE /\ HandOut(Open(ct))
               /\ pos' = pos + 2 + len
               /\ UNCHANGED <<writerVars, reader>>

Ended == reader \in {"eof", "error"} /\ UNCHANGED streamVars

\* Payload units are numbered, so that no two are the same.
Slice(n) == [i \in 1 .. n |-> Len(plain) + i]

WriterStep == (\E n \in 0 .. MaxLen : Write(Slice(n))) \/ Close \/ (\E n \in 0 .. Len(wire) : Cut(n))
ReaderStep == DecryptStream \/ ReadBuffered \/ ReadHeaderFails \/ ReadEOF \/ ReadFrame
StreamNext == WriterStep \/ ReaderStep \/ Ended

StreamSpec == StreamInit /\ [][StreamNext]_streamVars
StreamFairSpec == StreamSpec /\ WF_streamVars(ReaderStep)

-----------------------------------------------------------------------------
StreamTypeOK ==
    /\ plain \in Seq(Nat) /\ out \in Seq(Nat) /\ buf \in Seq(Nat)
    /\ frames \in 0 .. MaxWrites /\ counter \in 1 .. MaxWrites + 1 /\ closes \in 0 .. 2
    /\ cut \in BOOLEAN /\ pos \in 0 .. Len(wire)
    /\ reader \in {"wait", "salt", "read", "eof", "error"}

\* However the stream was cut and whatever the size of the reader's slices,
\* what it has handed out is a prefix of what was written, in order and
\* without gaps or repetitions between frames.
DecryptsPrefix == IsPrefix(out \o buf, plain)

\* A truncated stream never passes for a shorter one: the reader reports the
\* end of the stream only when it has handed out the whole payload and the
\* writer had closed it.  A cut between two frames is an error, and so is a
\* stream of which only a part of the EOF frame is left.
TruncationDetected == reader = "eof" => closes > 0 /\ out = plain

\* And a stream of which nothing was lost is read to its end.
NoFalseAlarm == reader = "error" => closes = 0 \/ Len(wire) < 2 * (1 + frames) + Len(plain) + frames + 2

\* The reader comes to an end: an empty frame does not make it spin.
ReaderEnds == reader = "salt" ~> reader \in {"eof", "error"}
=============================================================================
