--------------------------- MODULE SnapshotStream ---------------------------
(***************************************************************************)
(* The format of a snapshot: saveSnapShot writes it, readSnapshotHeader    *)
(* and recoverSnapShot of fsm/store.go read it back, one ReadFull at a     *)
(* time, from a file that may have been cut or damaged in between.         *)
(*                                                                         *)
(* The file is a sequence of 4-byte words: a length is two words, the low  *)
(* one first; a gzip stream, which checks itself, and the header are one   *)
(* word each; the checksum is one word and is ideal, it identifies what    *)
(* was hashed.  `odd' says that a cut left a part of one more word.        *)
(***************************************************************************)
EXTENDS Naturals, Sequences, Functions

CONSTANTS
    KeyOrder,  \* the keys in the order of the iterator; a key is a sequence of words
    Values,
    Words,     \* the words keys are made of, and those that damage may leave behind
    MaxLen,    \* the longest key a restore accepts: 1<<30 in the code
    BatchSize, \* records per batch: 100 in the code
    Damage     \* what may happen to the file: subset of {"cut", "corrupt"}

\* The words.
Num(n) == <<"num", n>>
Gzip(v) == <<"gzip", v>>
Header(i) == <<"header", i>>
Checksum(hashed) == <<"checksum", hashed>>

DataWords == ({"num"} \X Nat) \cup ({"gzip"} \X Values) \cup ({"header"} \X {"index", "other"})

\* A key came in a gRPC message, which is far below the limit.
ASSUME StreamAssumption ==
    /\ KeyOrder \in Seq(Seq(Words)) /\ Words \subseteq DataWords
    /\ MaxLen \in Nat \ {0}
    /\ \A i \in DOMAIN KeyOrder : Len(KeyOrder[i]) <= MaxLen
    /\ BatchSize \in Nat \ {0}

Nothing == [x \in {} |-> x]

VARIABLES
    records,  \* the keys of the Pebble snapshot, as its iterator yields them
    content,  \* what the Pebble snapshot holds
    wpc,      \* the writer: "start", "klen", "key", "vlen", "val", "checksum", "close", "closed", "cancelled"
    count,    \* records written
    file, odd,
    whashed,  \* what the writer has hashed
    intact,   \* history: the file has not been cut or damaged
    rpc,      \* the reader: "idle", "header", "klen", "key", "vlen", "val", "commit", "end"
    pos,      \* words read
    len,      \* keyLen, then toRead
    key,      \* kdata
    rhashed,  \* what the reader has hashed
    batch, k, \* the writes in wb, and their number
    newdb,    \* the content of the new database
    result    \* "none", "verified", "unverified", "rejected", "panic"

sourceVars == <<records, content>>
writerVars == <<sourceVars, wpc, count, whashed>>
fileVars == <<file, odd, intact>>
readerVars == <<rpc, pos, len, key, rhashed, batch, k, newdb, result>>
vars == <<writerVars, fileVars, readerVars>>

\* The one type invariant of this module.
TypeOK ==
    /\ records \in Seq(Seq(Words)) /\ content \in [Range(records) -> Values]
    /\ wpc \in {"start", "klen", "key", "vlen", "val", "checksum", "close", "closed", "cancelled"}
    /\ count \in 0 .. Len(records)
    /\ whashed \in Seq(DataWords) /\ file \in Seq(DataWords \cup {Checksum(whashed)})
    /\ odd \in BOOLEAN /\ intact \in BOOLEAN
    /\ rpc \in {"idle", "header", "klen", "key", "vlen", "val", "commit", "end"}
    /\ pos \in 0 .. Len(file)
    /\ len \in Nat
    /\ rhashed \in Seq(DataWords \cup {Checksum(whashed)})
    /\ batch \in [DOMAIN batch -> Values] /\ k \in 0 .. BatchSize - 1
    /\ newdb \in [DOMAIN newdb -> Values]
    /\ result \in {"none", "verified", "unverified", "rejected", "panic"}

\* Some of the keys are in the database; the iterator yields them in order.
Init ==
    /\ \E n \in 0 .. Len(KeyOrder) : \E f \in [1 .. n -> 1 .. Len(KeyOrder)] :
           /\ \A i, j \in 1 .. n : i < j => f[i] < f[j]
           /\ records = [i \in 1 .. n |-> KeyOrder[f[i]]]
    /\ content \in [Range(records) -> Values]
    /\ wpc = "start" /\ count = 0 /\ whashed = <<>>
    /\ file = <<>> /\ odd = FALSE /\ intact = TRUE
    /\ rpc = "idle" /\ pos = 0 /\ len = 0 /\ key = <<>> /\ rhashed = <<>>
    /\ batch = Nothing /\ k = 0 /\ newdb = Nothing /\ result = "none"

-----------------------------------------------------------------------------
(* saveSnapShot *)

\* The head of the loop after n records.
NextRecord(n) == IF n < Len(records) THEN "klen" ELSE "checksum"

WriteHeader ==
    /\ wpc = "start"
    /\ file' = <<Header("index")>>
    /\ wpc' = NextRecord(0)
    /\ UNCHANGED <<sourceVars, count, whashed, odd, intact, readerVars>>

\* One of the four writes of a record: written and then hashed.
Write(at, token, next) ==
    /\ wpc = at
    /\ file' = file \o token /\ whashed' = whashed \o token
    /\ wpc' = next
    /\ UNCHANGED <<sourceVars, odd, intact, readerVars>>

Key == records[count + 1]

WriteKeyLen == Write("klen", <<Num(Len(Key)), Num(0)>>, "key") /\ UNCHANGED count
WriteKey == Write("key", Key, "vlen") /\ UNCHANGED count

\* Mutant of WriteValLen: the high word comes first.
WriteValLenBig == Write("vlen", <<Num(0), Num(1)>>, "val") /\ UNCHANGED count
WriteValLen == Write("vlen", <<Num(1), Num(0)>>, "val") /\ UNCHANGED count
WriteVal == Write("val", <<Gzip(content[Key])>>, NextRecord(count + 1)) /\ count' = count + 1

WriteChecksum ==
    /\ wpc = "checksum"
    /\ file' = Append(file, Checksum(whashed))
    /\ wpc' = "close"
    /\ UNCHANGED <<sourceVars, count, whashed, odd, intact, readerVars>>

CloseSink ==
    /\ wpc = "close"
    /\ wpc' = "closed"
    /\ UNCHANGED <<sourceVars, count, whashed, fileVars, readerVars>>

\* The sink or the iterator fails: the sink is cancelled, and raft does not
\* list the snapshot.
WriteFailed ==
    /\ wpc \notin {"closed", "cancelled"}
    /\ wpc' = "cancelled"
    /\ UNCHANGED <<sourceVars, count, whashed, fileVars, readerVars>>

-----------------------------------------------------------------------------
(* The file between writer and reader, external *)

Cut(n, part) ==
    /\ "cut" \in Damage /\ wpc = "closed" /\ rpc = "idle" /\ intact
    /\ file' = SubSeq(file, 1, n)
    /\ odd' = part
    /\ intact' = FALSE
    /\ UNCHANGED <<writerVars, readerVars>>

\* One word becomes another.
Corrupt(i, w) ==
    /\ "corrupt" \in Damage /\ wpc = "closed" /\ rpc = "idle" /\ intact
    /\ file[i] # w
    /\ file' = [file EXCEPT ![i] = w]
    /\ intact' = FALSE
    /\ UNCHANGED <<odd, writerVars, readerVars>>

-----------------------------------------------------------------------------
(* recoverSnapShot *)

\* io.ReadFull of n words: all of them, io.EOF, or io.ErrUnexpectedEOF.
Left == Len(file) - pos
ReadAll(n) == n <= Left
ReadEOF(n) == n > 0 /\ Left = 0 /\ ~odd
ReadPart(n) == ~ReadAll(n) /\ ~ReadEOF(n)

Take(n) == SubSeq(file, pos + 1, pos + n)
Hash(n) == pos' = pos + n /\ rhashed' = rhashed \o Take(n)

\* The error paths: the batch is destroyed and the new database removed.
Reject ==
    /\ rpc' = "end" /\ result' = "rejected"
    /\ batch' = Nothing /\ k' = 0 /\ newdb' = Nothing
    /\ UNCHANGED <<pos, len, key, rhashed, writerVars, fileVars>>

\* The end of the loop.
Break(verified) ==
    /\ rpc' = "commit"
    /\ result' = IF verified THEN "verified" ELSE "unverified"
    /\ UNCHANGED <<pos, len, key, rhashed, batch, k, newdb, writerVars, fileVars>>

Restore ==
    /\ wpc = "closed" /\ rpc = "idle"
    /\ rpc' = "header"
    /\ UNCHANGED <<pos, len, key, rhashed, batch, k, newdb, result, writerVars, fileVars>>

\* readSnapshotHeader: the magic number and the version are right.
HeaderOK == ReadAll(1) /\ file[1][1] = "header"

\* The new database is opened after the header.
ReadHeader ==
    /\ rpc = "header" /\ HeaderOK
    /\ rpc' = "klen" /\ pos' = 1
    /\ UNCHANGED <<len, key, rhashed, batch, k, newdb, result, writerVars, fileVars>>

HeaderRejected ==
    /\ rpc = "header" /\ ~HeaderOK
    /\ Reject

\* A length of two words; a word that is no number stands for any number.
Lengths(words) ==
    IF words[2] # Num(0) THEN {MaxLen + 1}
    ELSE IF words[1][1] = "num" THEN {words[1][2]} ELSE {Len(file) + 1, MaxLen + 1}

TooLong(n) == n > MaxLen

ReadKeyLen ==
    /\ rpc = "klen" /\ ReadAll(2)
    /\ len' \in Lengths(Take(2))
    /\ ~TooLong(len')
    /\ Hash(2)
    /\ rpc' = "key"
    /\ UNCHANGED <<key, batch, k, newdb, result, writerVars, fileVars>>

\* keyLen > 1<<30
KeyTooLong ==
    /\ rpc = "klen" /\ ReadAll(2) /\ \E n \in Lengths(Take(2)) : TooLong(n)
    /\ Reject

\* Nothing is left where the checksum should be: a warning.
ChecksumMissing ==
    /\ rpc = "klen" /\ ReadEOF(2)
    /\ Break(FALSE)

\* Four bytes are left, and they are the checksum of what was read.
ChecksumLeft == ReadPart(2) /\ Left = 1 /\ ~odd
ChecksumOK == ChecksumLeft /\ Take(1) = <<Checksum(rhashed)>>

\* Mutant of ChecksumRead: the sums are not compared.
ChecksumIgnored ==
    /\ rpc = "klen" /\ ChecksumLeft
    /\ Break(TRUE)

ChecksumRead ==
    /\ rpc = "klen" /\ ChecksumOK
    /\ Break(TRUE)

ChecksumRejected ==
    /\ rpc = "klen" /\ ReadPart(2) /\ ~ChecksumOK
    /\ Reject

ReadKey ==
    /\ rpc = "key" /\ ReadAll(len)
    /\ key' = Take(len)
    /\ Hash(len)
    /\ rpc' = "vlen"
    /\ UNCHANGED <<len, batch, k, newdb, result, writerVars, fileVars>>

\* toRead is not checked against a limit.
ReadValLen ==
    /\ rpc = "vlen" /\ ReadAll(2)
    /\ len' \in Lengths(Take(2))
    /\ Hash(2)
    /\ rpc' = "val"
    /\ UNCHANGED <<key, batch, k, newdb, result, writerVars, fileVars>>

\* The end of the file inside a record, but between two reads.
RecordEnds ==
    /\ \/ rpc \in {"key", "val"} /\ ReadEOF(len)
       \/ rpc = "vlen" /\ ReadEOF(2)
    /\ Break(FALSE)

RecordCut ==
    /\ \/ rpc \in {"key", "val"} /\ ReadPart(len)
       \/ rpc = "vlen" /\ ReadPart(2)
    /\ Reject

\* make([]byte, toRead) with a length out of range.
ValTooLong ==
    /\ rpc = "val" /\ TooLong(len)
    /\ rpc' = "end" /\ result' = "panic"
    /\ UNCHANGED <<pos, len, key, rhashed, batch, k, newdb, writerVars, fileVars>>

\* gzipDecode.
GzipOK == len = 1 /\ Take(1)[1][1] = "gzip"

ValRejected ==
    /\ rpc = "val" /\ ReadAll(len) /\ ~GzipOK
    /\ Reject

\* Writes over a database: the last one of a key wins.
Over(db, puts) ==
    [x \in DOMAIN db \cup DOMAIN puts |-> IF x \in DOMAIN puts THEN puts[x] ELSE db[x]]

\* wb.Put of the record just read.
Put == Over(batch, [x \in {key} |-> Take(1)[1][2]])

\* Mutant of ReadVal: a commit one record too late.
ReadValLate ==
    /\ rpc = "val" /\ ReadAll(len) /\ GzipOK
    /\ Hash(1)
    /\ IF k + 1 > BatchSize THEN newdb' = Over(newdb, Put) /\ batch' = Nothing /\ k' = 0
                            ELSE batch' = Put /\ k' = k + 1 /\ UNCHANGED newdb
    /\ rpc' = "klen"
    /\ UNCHANGED <<len, key, result, writerVars, fileVars>>

\* Mutant of ReadVal: a full batch is replaced by a new one, not committed.
ReadValDropped ==
    /\ rpc = "val" /\ ReadAll(len) /\ GzipOK
    /\ Hash(1)
    /\ IF k + 1 >= BatchSize THEN batch' = Nothing /\ k' = 0
                             ELSE batch' = Put /\ k' = k + 1
    /\ rpc' = "klen"
    /\ UNCHANGED <<len, key, newdb, result, writerVars, fileVars>>

\* wb.Put, and a wb.Commit per BatchSize records.
ReadVal ==
    /\ rpc = "val" /\ ReadAll(len) /\ GzipOK
    /\ Hash(1)
    /\ IF k + 1 >= BatchSize THEN newdb' = Over(newdb, Put) /\ batch' = Nothing /\ k' = 0
                             ELSE batch' = Put /\ k' = k + 1 /\ UNCHANGED newdb
    /\ rpc' = "klen"
    /\ UNCHANGED <<len, key, result, writerVars, fileVars>>

\* Mutant of CommitRest: the last batch is destroyed.
CommitNothing ==
    /\ rpc = "commit"
    /\ batch' = Nothing
    /\ rpc' = "end"
    /\ UNCHANGED <<pos, len, key, rhashed, k, newdb, result, writerVars, fileVars>>

\* The rest of the records; the switch to the new database is in Store.
CommitRest ==
    /\ rpc = "commit"
    /\ newdb' = IF k > 0 THEN Over(newdb, batch) ELSE newdb
    /\ batch' = Nothing
    /\ rpc' = "end"
    /\ UNCHANGED <<pos, len, key, rhashed, k, result, writerVars, fileVars>>

WriteStep ==
    \/ WriteHeader
    \/ WriteKeyLen \/ WriteKey \/ WriteValLen \/ WriteVal
    \/ WriteChecksum \/ CloseSink

ReadStep ==
    \/ ReadHeader \/ HeaderRejected
    \/ ReadKeyLen \/ KeyTooLong \/ ChecksumMissing \/ ChecksumRead \/ ChecksumRejected
    \/ ReadKey \/ ReadValLen \/ RecordEnds \/ RecordCut
    \/ ValTooLong \/ ValRejected \/ ReadVal
    \/ CommitRest

Next ==
    \/ WriteStep \/ WriteFailed
    \/ \E n \in 0 .. Len(file) - 1, part \in BOOLEAN : Cut(n, part)
    \/ \E i \in 1 .. Len(file), w \in Words : Corrupt(i, w)
    \/ Restore \/ ReadStep

Spec == Init /\ [][Next]_vars

-----------------------------------------------------------------------------
(* Properties *)

Accepted == rpc = "end" /\ result \in {"verified", "unverified"}

\* All that saveSnapShot writes.
Stream == <<Header("index")>> \o whashed \o <<Checksum(whashed)>>
AtMostCut == \E n \in 0 .. Len(Stream) : file = SubSeq(Stream, 1, n)

\* What saveSnapShot writes recoverSnapShot reads back, record by record and
\* batch by batch, and it finds the checksum that it expects.
RoundTrip == intact /\ rpc = "end" => result = "verified" /\ newdb = content

\* A stream whose checksum was verified holds the content that was saved,
\* wherever it was cut or damaged, even if the reader has lost its place.
VerifiedIsComplete == rpc = "end" /\ result = "verified" => newdb = content

\* What a restore accepts from a stream that was cut, with or without a
\* checksum, is the content of an initial part of the records: no record is
\* torn, and none is missing before one that is there (store.go
\* recoverSnapShot).
CutIsPrefix ==
    Accepted /\ AtMostCut
        => \E n \in 0 .. Len(records) :
               newdb = [x \in {records[i] : i \in 1 .. n} |-> content[x]]

\* The length of a value is taken from the stream and allocated without a
\* check (store.go:386-387), and a stream that was at most cut never makes that
\* panic: wherever it ends, no word of it is taken for a length that is none.
OnlyDamagePanics == result = "panic" => ~AtMostCut

\* "Write trailing checksum for verification during restore" (store.go:240):
\* what a restore accepts is what was saved.
AcceptedIsComplete == Accepted => newdb = content

=============================================================================
