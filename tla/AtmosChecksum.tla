---------------------------- MODULE AtmosChecksum ----------------------------
(***************************************************************************)
(* The AtmosChecksum object (lib/atmos_common.c, lib/atmos_common.h): a    *)
(* running digest of the bytes fed to it plus a count of those bytes.      *)
(*                                                                         *)
(* The digest is taken to be collision free: internal_state is the         *)
(* sequence of bytes digested so far, and the value of a digest is that    *)
(* sequence itself.  Two digests are equal exactly when the data are.      *)
(***************************************************************************)
EXTENDS Integers, Sequences

CONSTANTS
  Bytes,        \* the values a byte of an object's content can take
  NULL          \* the null pointer, or a header that is not there


(* enum atmos_checksum_mode, with the values C gives its members.  NONE    *)
(* stands for a write request whose checksum pointer is null.              *)
WSCHECKSUM        == 0
GENERATE_CHECKSUM == 1
NONE              == -1
Modes             == {WSCHECKSUM, GENERATE_CHECKSUM, NONE}

(* The value of the x-emc-wschecksum header: algorithm/offset/value.       *)
States == [offset: Nat, value: Seq(Bytes)]

(* The value of a Range header.                                            *)
Ranges == [first: Nat, last: Int]

ASSUME NullAssumption ==
  /\ NULL \notin Seq(Bytes)
  /\ NULL \notin States
  /\ NULL \notin Ranges

(* What AtmosChecksum_init leaves behind: a usable digest context, a null  *)
(* internal_state because the library's *_Init failed, or a null           *)
(* internal_state and no algorithm name because the algorithm is unknown.  *)
Outcomes == {"ready", "failed", "unknown"}

Checksum == [mode: Modes, status: Outcomes,
             internal_state: Seq(Bytes), offset: Nat]

ChecksumInit(mode, outcome) ==
  [mode |-> mode, status |-> outcome, internal_state |-> << >>, offset |-> 0]

(* Slip: the offset is the size of the last piece, not the running total.  *)
Update_OffsetOfPiece(ck, data, hashed) ==
  IF ck.status # "ready"
    THEN ck
    ELSE [ck EXCEPT !.internal_state = IF hashed THEN @ \o data ELSE @,
                    !.offset = Len(data)]

(* hashed is FALSE when the library's *_Update reports an error: the code  *)
(* logs it and still advances the offset.                                  *)
Update(ck, data, hashed) ==
  IF ck.status # "ready"
    THEN ck
    ELSE [ck EXCEPT !.internal_state = IF hashed THEN @ \o data ELSE @,
                    !.offset = @ + Len(data)]

(* The bytes that a read of at most count bytes finds in a file whose      *)
(* content is `content` and whose position is `pos`.                       *)
FileRead(content, pos, count) ==
  SubSeq(content, pos + 1,
         IF pos + count <= Len(content) THEN pos + count ELSE Len(content))

(* The position after that read.                                           *)
PosAfterRead(content, pos, count) ==
  pos + Len(FileRead(content, pos, count))

(* AtmosChecksum_update_file: the 64 KB pieces it is fed in do not matter   *)
(* to the digest; a file shorter than count is only logged.                *)
UpdateFile(ck, content, pos, count, hashed) ==
  Update(ck, FileRead(content, pos, count), hashed)

(* AtmosChecksum_get_value copies the context out of internal_state before *)
(* it finalises the copy.  With a known algorithm and a null               *)
(* internal_state the copy reads through the null pointer.                 *)
ReadsNull(ck) == ck.status = "failed"

(* finished is FALSE when the library's *_Final reports an error: there is *)
(* no value then, and internal_state is what it was.                       *)
GetValue(ck, finished) ==
  IF ck.status = "unknown" \/ ~finished THEN NULL ELSE ck.internal_state

GetState(ck, finished) ==
  IF GetValue(ck, finished) = NULL
    THEN NULL
    ELSE [offset |-> ck.offset, value |-> GetValue(ck, finished)]

(* The last Len(data) bytes of seq are data.                               *)
EndsWith(seq, data) ==
  /\ Len(data) <= Len(seq)
  /\ \A i \in 1 .. Len(data) : seq[Len(seq) - Len(data) + i] = data[i]

(* C's logical negation.                                                   *)
Not(n) == IF n = 0 THEN 1 ELSE 0

(* Slip: the test is mode == GENERATE, and nothing is ever compared.       *)
VerifyResponse_NoCompare(ck, header, finished) ==
  \/ ck.mode = GENERATE_CHECKSUM
  \/ /\ header # NULL
     /\ GetValue(ck, finished) # NULL
     /\ GetValue(ck, finished) = header

(* AtmosChecksum_verify_response, with the precedence the code has: the    *)
(* test is (!mode) == GENERATE, not !(mode == GENERATE).  header is the    *)
(* x-emc-content-checksum header of the response.                          *)
VerifyResponse(ck, header, finished) ==
  \/ Not(ck.mode) = GENERATE_CHECKSUM
  \/ /\ header # NULL
     /\ GetValue(ck, finished) # NULL
     /\ GetValue(ck, finished) = header
=============================================================================
