------------------------ MODULE SnapshotStreamProofs ------------------------
(***************************************************************************)
(* Proofs about the snapshot format, for every set of keys, every content, *)
(* every batch size: a stream that is whole is restored, one that was cut  *)
(* restores to an initial part of what was saved, and one whose checksum   *)
(* was verified to all of it, whatever damage was done.                    *)
(*                                                                         *)
(* The invariant says where the records are in the stream: S[n] words are  *)
(* hashed when n records are written.  S is a bound variable, so that no   *)
(* definition has to recurse over the records.                             *)
(***************************************************************************)
EXTENDS SnapshotStream, SequenceTheorems, TLAPS

-----------------------------------------------------------------------------
(* The invariant *)

\* The parts of the program whose state the phases of a run fix.
Phases ==
    /\ wpc = "start" => count = 0
    /\ wpc \in {"klen", "key", "vlen", "val"} => count < Len(records)
    /\ wpc \in {"checksum", "close", "closed"} => count = Len(records)
    /\ wpc # "closed" => rpc = "idle" /\ intact
    /\ wpc \notin {"close", "closed", "cancelled"} => file \in Seq(DataWords)
    /\ rpc \in {"idle", "header"} =>
           pos = 0 /\ rhashed = <<>> /\ newdb = Nothing /\ k = 0 /\ result = "none"
    /\ rpc \in {"klen", "key", "vlen", "val"} => result = "none"
    /\ rpc = "commit" => result \in {"verified", "unverified"}
    /\ k = 0 => batch = Nothing
    /\ \A i \in DOMAIN records : Len(records[i]) <= MaxLen

TypeInv == TypeOK /\ Phases

\* The four tokens in h of the record of key x, whose first word is b + 1.
KeyLenAt(h, b, x) == h[b + 1] = Num(Len(x)) /\ h[b + 2] = Num(0)
KeyAt(h, b, x) == \A i \in 1 .. Len(x) : h[b + 2 + i] = x[i]
ValLenAt(h, b, x) == h[b + Len(x) + 3] = Num(1) /\ h[b + Len(x) + 4] = Num(0)
ValAt(h, b, x) == h[b + Len(x) + 5] = Gzip(content[x])

\* S marks the ends of the records written.
Ends(S) ==
    /\ S[0] = 0
    /\ \A n \in 0 .. count - 1 :
           /\ S[n + 1] = S[n] + Len(records[n + 1]) + 5
           /\ KeyLenAt(whashed, S[n], records[n + 1]) /\ KeyAt(whashed, S[n], records[n + 1])
           /\ ValLenAt(whashed, S[n], records[n + 1]) /\ ValAt(whashed, S[n], records[n + 1])
    /\ \A m, n \in 0 .. count : m < n => S[m] < S[n]

\* What is hashed of the record that is being written, whose first word is b + 1.
Underway(b) ==
    /\ wpc \in {"start", "klen", "checksum", "close", "closed"} => Len(whashed) = b
    /\ wpc = "key" => Len(whashed) = b + 2 /\ KeyLenAt(whashed, b, Key)
    /\ wpc = "vlen" => Len(whashed) = b + 2 + Len(Key) /\ KeyLenAt(whashed, b, Key) /\ KeyAt(whashed, b, Key)
    /\ wpc = "val" =>
           /\ Len(whashed) = b + Len(Key) + 4
           /\ KeyLenAt(whashed, b, Key) /\ KeyAt(whashed, b, Key) /\ ValLenAt(whashed, b, Key)

Layout(S) == Ends(S) /\ Underway(S[count])

WriterInv ==
    wpc # "cancelled" =>
        /\ \E S \in [0 .. count -> Nat] : Layout(S)
        /\ wpc \in {"klen", "key", "vlen", "val", "checksum"} => file = <<Header("index")>> \o whashed
        /\ wpc \in {"close", "closed"} /\ intact => file = Stream

\* The header was read, and the restore has not failed.
Reading == rpc \in {"klen", "key", "vlen", "val", "commit"} \/ Accepted

\* What was read and what was written are the same as far as it was read.
Agrees ==
    /\ Len(rhashed) <= Len(whashed)
    /\ \A i \in 1 .. Len(rhashed) : rhashed[i] = whashed[i]

\* The first n records, and no others, are in the new database or in the batch.
Holds(n) ==
    /\ DOMAIN newdb \cup DOMAIN batch = {records[i] : i \in 1 .. n}
    /\ \A x \in DOMAIN newdb : newdb[x] = content[x]
    /\ \A x \in DOMAIN batch : batch[x] = content[x]
    /\ rpc = "end" => batch = Nothing

\* The reader stands where the writer stood after n records and a part of one.
At(S, n) ==
    /\ rpc = "klen" \/ result = "verified" => Len(rhashed) = S[n]
    /\ rpc \in {"key", "vlen", "val"} => n < Len(records)
    /\ rpc = "key" => Len(rhashed) = S[n] + 2 /\ len = Len(records[n + 1])
    /\ rpc = "vlen" => Len(rhashed) = S[n] + 2 + Len(records[n + 1]) /\ key = records[n + 1]
    /\ rpc = "val" => Len(rhashed) = S[n] + 4 + Len(records[n + 1]) /\ key = records[n + 1] /\ len = 1

InStep(S) == \E n \in 0 .. Len(records) : At(S, n) /\ Holds(n)

\* A reader that has read what was written is in step with the writer; in a
\* stream that was at most cut it always has; a checksum that was verified is
\* that of all that was written.
ReaderInv ==
    Reading =>
        /\ pos = Len(rhashed) + 1
        /\ \A i \in 1 .. Len(rhashed) : rhashed[i] = file[i + 1]
        /\ Agrees => \A S \in [0 .. count -> Nat] : Layout(S) => InStep(S)
        /\ AtMostCut => Agrees
        /\ result = "verified" => rhashed = whashed

IntactInv == intact => ~odd /\ (rpc \in {"commit", "end"} => result = "verified")

-----------------------------------------------------------------------------
(* Types *)

\* The words a ReadFull returns are words of the file, in their order.
LEMMA TakeType ==
    ASSUME TypeInv, NEW n \in Nat, ReadAll(n)
    PROVE  /\ Take(n) \in Seq(DataWords \cup {Checksum(whashed)})
           /\ Len(Take(n)) = n
           /\ \A i \in 1 .. n : Take(n)[i] = file[pos + i] /\ Take(n)[i] \in DataWords \cup {Checksum(whashed)}
  <1> DEFINE W == DataWords \cup {Checksum(whashed)}
  <1>1. file \in Seq(W) /\ pos \in Nat /\ pos + n <= Len(file) /\ Len(file) \in Nat
    BY DEF TypeInv, TypeOK, ReadAll, Left
  <1> HIDE DEF W
  <1>2. /\ SubSeq(file, pos + 1, pos + n) \in Seq(W)
        /\ Len(SubSeq(file, pos + 1, pos + n)) = n
        /\ \A i \in 1 .. n : SubSeq(file, pos + 1, pos + n)[i] = file[pos + i] /\ file[pos + i] \in W
    BY <1>1
  <1> QED
    BY <1>2 DEF Take, W

\* A length read from the file is a number.
LEMMA LengthsType ==
    ASSUME TypeInv, ReadAll(2), NEW m \in Lengths(Take(2))
    PROVE  m \in Nat
  <1>1. Take(2)[1] \in DataWords \cup {Checksum(whashed)}
    BY TakeType
  <1>2. Take(2)[1][1] = "num" => Take(2)[1][2] \in Nat
    BY <1>1 DEF DataWords, Checksum
  <1>3. MaxLen + 1 \in Nat /\ Len(file) + 1 \in Nat
    BY StreamAssumption DEF TypeInv, TypeOK
  <1> QED
    BY <1>2, <1>3 DEF Lengths

\* What gzipDecode returns is a value.
LEMMA GzipType ==
    ASSUME TypeInv, ReadAll(len), GzipOK
    PROVE  Take(1)[1][2] \in Values /\ ReadAll(1)
  <1>1. ReadAll(1) /\ Take(1)[1][1] = "gzip"
    BY DEF GzipOK
  <1>2. Take(1)[1] \in DataWords \cup {Checksum(whashed)}
    BY <1>1, TakeType
  <1> QED
    BY <1>1, <1>2 DEF DataWords, Checksum

\* Reading and hashing keeps the types.
LEMMA HashType ==
    ASSUME TypeInv, NEW n \in Nat, ReadAll(n), Hash(n)
    PROVE  pos' \in 0 .. Len(file) /\ rhashed' \in Seq(DataWords \cup {Checksum(whashed)})
  <1>1. pos' \in 0 .. Len(file)
    BY DEF TypeInv, TypeOK, ReadAll, Left, Hash
  <1>2. rhashed \in Seq(DataWords \cup {Checksum(whashed)}) /\ rhashed' = rhashed \o Take(n)
    BY DEF TypeInv, TypeOK, Hash
  <1> QED
    BY <1>1, <1>2, TakeType, ConcatProperties

\* Writes over a database keep its type.
LEMMA OverType ==
    ASSUME NEW db, NEW puts, db \in [DOMAIN db -> Values], puts \in [DOMAIN puts -> Values]
    PROVE  /\ DOMAIN Over(db, puts) = DOMAIN db \cup DOMAIN puts
           /\ Over(db, puts) \in [DOMAIN Over(db, puts) -> Values]
           /\ \A x \in DOMAIN puts : Over(db, puts)[x] = puts[x]
           /\ \A x \in DOMAIN db : x \notin DOMAIN puts => Over(db, puts)[x] = db[x]
  BY DEF Over

\* The last write of a key is what is read.
LEMMA OverContent ==
    ASSUME NEW db, NEW puts, NEW c, \A x \in DOMAIN db : db[x] = c[x], \A x \in DOMAIN puts : puts[x] = c[x]
    PROVE  \A x \in DOMAIN Over(db, puts) : Over(db, puts)[x] = c[x]
  BY DEF Over

\* The empty database, as a function.
LEMMA NothingType == Nothing \in [DOMAIN Nothing -> Values] /\ DOMAIN Nothing = {}
  BY DEF Nothing

\* NewIter on a snapshot with some of the keys, before the first write.
LEMMA TypeInvInit == Init => TypeInv
  <1> SUFFICES ASSUME Init PROVE TypeInv
    OBVIOUS
  <1>0. PICK n \in 0 .. Len(KeyOrder) : \E f \in [1 .. n -> 1 .. Len(KeyOrder)] :
            records = [i \in 1 .. n |-> KeyOrder[f[i]]]
    BY DEF Init
  <1>1. PICK f \in [1 .. n -> 1 .. Len(KeyOrder)] : records = [i \in 1 .. n |-> KeyOrder[f[i]]]
    BY <1>0
  <1>2. KeyOrder \in Seq(Seq(Words)) /\ \A i \in 1 .. Len(KeyOrder) : KeyOrder[i] \in Seq(Words) /\ Len(KeyOrder[i]) <= MaxLen
    BY StreamAssumption
  <1>3. n \in Nat /\ \A i \in 1 .. n : f[i] \in 1 .. Len(KeyOrder)
    BY <1>2
  <1>4. records \in Seq(Seq(Words)) /\ \A i \in DOMAIN records : Len(records[i]) <= MaxLen
    <2>1. \A i \in 1 .. n : records[i] \in Seq(Words) /\ Len(records[i]) <= MaxLen
      BY <1>1, <1>2, <1>3
    <2>2. DOMAIN records = 1 .. n /\ records = [i \in 1 .. n |-> records[i]]
      BY <1>1
    <2> QED
      BY <2>1, <2>2, <1>3, IsASeq
  <1>5. Len(records) \in Nat
    BY <1>4
  <1>6. batch \in [DOMAIN batch -> Values] /\ newdb \in [DOMAIN newdb -> Values]
    BY NothingType DEF Init
  <1>7. 0 \in 0 .. BatchSize - 1
    BY StreamAssumption
  <1>8. TypeOK
    <2>1. odd \in BOOLEAN /\ intact \in BOOLEAN
      BY DEF Init
    <2>2. /\ content \in [Range(records) -> Values] /\ wpc = "start" /\ count = 0 /\ whashed = <<>>
          /\ file = <<>> /\ rpc = "idle" /\ pos = 0 /\ len = 0 /\ rhashed = <<>> /\ k = 0 /\ result = "none"
      BY DEF Init
    <2>3. /\ <<>> \in Seq(DataWords) /\ <<>> \in Seq(DataWords \cup {Checksum(whashed)})
          /\ Len(file) = 0 /\ 0 \in 0 .. Len(records)
      BY <2>2, <1>5
    <2> QED
      BY <1>4, <1>6, <1>7, <2>1, <2>2, <2>3 DEF TypeOK
  <1>9. Phases
    BY <1>4 DEF Init, Phases
  <1> QED
    BY <1>8, <1>9 DEF TypeInv

\* What the reader's state must satisfy after a step of the reader.
ReaderType ==
    /\ rpc \in {"klen", "key", "vlen", "val", "commit", "end"}
    /\ rpc \in {"klen", "key", "vlen", "val"} => result = "none"
    /\ rpc = "commit" => result \in {"verified", "unverified"}
    /\ pos \in 0 .. Len(file)
    /\ len \in Nat
    /\ rhashed \in Seq(DataWords \cup {Checksum(whashed)})
    /\ batch \in [DOMAIN batch -> Values] /\ k \in 0 .. BatchSize - 1
    /\ k = 0 => batch = Nothing
    /\ newdb \in [DOMAIN newdb -> Values]
    /\ result \in {"none", "verified", "unverified", "rejected", "panic"}

\* A step of the reader has the types if it leaves writer and file alone.
LEMMA ReaderFrame ==
    ASSUME TypeInv, wpc = "closed", UNCHANGED <<writerVars, fileVars>>, ReaderType'
    PROVE  TypeInv'
  <1>1. UNCHANGED <<records, content, wpc, count, whashed, file, odd, intact>>
    BY DEF writerVars, sourceVars, fileVars
  <1>2. TypeOK'
    BY <1>1 DEF TypeInv, TypeOK, ReaderType
  <1>3. Phases'
    BY <1>1 DEF TypeInv, Phases, ReaderType
  <1> QED
    BY <1>2, <1>3 DEF TypeInv

\* The writer's steps leave the reader where it is.
LEMMA WriteTypes ==
    ASSUME TypeInv, WriteStep \/ WriteFailed
    PROVE  TypeInv'
  <1> USE DEF TypeInv
  <1>1. \A i \in 1 .. Len(records) : records[i] \in Seq(DataWords)
    <2>1. \A i \in 1 .. Len(records) : records[i] \in Seq(Words)
      BY DEF TypeOK
    <2> QED
      BY <2>1, StreamAssumption
  <1>2. wpc \notin {"closed", "cancelled"} /\ rpc = "idle" /\ intact /\ rhashed = <<>> /\ pos = 0
    <2>1. wpc \notin {"closed", "cancelled"}
      BY DEF WriteStep, WriteFailed, WriteHeader, WriteKeyLen, WriteKey, WriteValLen, WriteVal, Write, WriteChecksum, CloseSink
    <2> QED
      BY <2>1 DEF Phases
  <1>3. ASSUME NEW f \in Seq(DataWords \cup {Checksum(whashed')}), file' = f, whashed' \in Seq(DataWords),
               NEW next \in {"klen", "key", "vlen", "val", "checksum", "close", "closed", "cancelled"}, wpc' = next,
               next \notin {"close", "closed", "cancelled"} => f \in Seq(DataWords),
               NEW c \in 0 .. Len(records), count' = c,
               next \in {"klen", "key", "vlen", "val"} => c < Len(records),
               next \in {"checksum", "close", "closed"} => c = Len(records),
               UNCHANGED <<sourceVars, odd, intact, readerVars>>
        PROVE  TypeInv'
    <2>1. UNCHANGED <<records, content, odd, intact, rpc, pos, len, key, rhashed, batch, k, newdb, result>>
      BY <1>3 DEF sourceVars, readerVars
    <2>2. <<>> \in Seq(DataWords \cup {Checksum(whashed')}) /\ 0 \in 0 .. Len(f)
      OBVIOUS
    <2>3. TypeOK'
      BY <1>2, <1>3, <2>1, <2>2 DEF TypeOK
    <2>4. Phases'
      BY <1>2, <1>3, <2>1 DEF Phases
    <2> QED
      BY <2>3, <2>4
  <1>4. ASSUME NEW at \in {"klen", "key", "vlen", "val"}, NEW token \in Seq(DataWords),
               NEW next \in {"klen", "key", "vlen", "val", "checksum"}, Write(at, token, next),
               NEW c \in 0 .. Len(records), count' = c,
               next = "checksum" => c = Len(records), next # "checksum" => c < Len(records)
        PROVE  TypeInv'
    <2>1. file \in Seq(DataWords) /\ whashed \in Seq(DataWords)
      BY <1>4 DEF Write, Phases, TypeOK
    <2>2. file \o token \in Seq(DataWords) /\ whashed \o token \in Seq(DataWords)
      BY <2>1, ConcatProperties
    <2>3. file \o token \in Seq(DataWords \cup {Checksum(whashed')})
      BY <2>2
    <2> QED
      BY <1>3, <1>4, <2>2, <2>3 DEF Write
  <1>5. count \in 0 .. Len(records) /\ Len(records) \in Nat /\ whashed \in Seq(DataWords)
    BY DEF TypeOK
  <1>6. CASE WriteHeader
    <2>1. Header("index") \in DataWords
      BY DEF DataWords, Header
    <2>2. <<Header("index")>> \in Seq(DataWords) /\ <<Header("index")>> \in Seq(DataWords \cup {Checksum(whashed')})
      BY <2>1
    <2>3. count = 0 /\ UNCHANGED <<count, whashed>> /\ file' = <<Header("index")>> /\ wpc' = NextRecord(0)
          /\ UNCHANGED <<sourceVars, odd, intact, readerVars>>
      BY <1>6 DEF WriteHeader, Phases
    <2>4. NextRecord(0) \in {"klen", "checksum"} /\ (NextRecord(0) = "klen" => 0 < Len(records))
          /\ (NextRecord(0) = "checksum" => 0 = Len(records))
      BY <1>5 DEF NextRecord
    <2> QED
      BY <1>3, <1>5, <2>2, <2>3, <2>4
  <1>7. CASE WriteKeyLen \/ WriteKey \/ WriteValLen \/ WriteVal
    <2>1. wpc \in {"klen", "key", "vlen", "val"}
      BY <1>7 DEF WriteKeyLen, WriteKey, WriteValLen, WriteVal, Write
    <2>2. count < Len(records) /\ Key \in Seq(DataWords) /\ content[Key] \in Values
      <3>1. count < Len(records)
        BY <2>1 DEF Phases
      <3>2. count + 1 \in DOMAIN records /\ Key \in Range(records)
        BY <1>5, <3>1 DEF Key, Range, TypeOK
      <3>3. Key \in Seq(DataWords)
        BY <1>1, <1>5, <3>1 DEF Key
      <3>4. content[Key] \in Values
        BY <3>2 DEF TypeOK
      <3> QED
        BY <3>1, <3>3, <3>4
    <2>3. CASE WriteKeyLen
      <3>1. Num(Len(Key)) \in DataWords /\ Num(0) \in DataWords
        BY <2>2 DEF DataWords, Num
      <3>2. <<Num(Len(Key)), Num(0)>> \in Seq(DataWords)
        BY <3>1
      <3> QED
        BY <1>4, <1>5, <2>2, <2>3, <3>2 DEF WriteKeyLen
    <2>4. CASE WriteKey
      BY <1>4, <1>5, <2>2, <2>4 DEF WriteKey
    <2>5. CASE WriteValLen
      <3>1. Num(1) \in DataWords /\ Num(0) \in DataWords
        BY DEF DataWords, Num
      <3>2. <<Num(1), Num(0)>> \in Seq(DataWords)
        BY <3>1
      <3> QED
        BY <1>4, <1>5, <2>2, <2>5, <3>2 DEF WriteValLen
    <2>6. CASE WriteVal
      <3>1. Gzip(content[Key]) \in DataWords
        BY <2>2 DEF DataWords, Gzip
      <3>2. <<Gzip(content[Key])>> \in Seq(DataWords)
        BY <3>1
      <3>3. count + 1 \in 0 .. Len(records) /\ NextRecord(count + 1) \in {"klen", "checksum"}
            /\ (NextRecord(count + 1) = "checksum" => count + 1 = Len(records))
            /\ (NextRecord(count + 1) # "checksum" => count + 1 < Len(records))
        BY <1>5, <2>2 DEF NextRecord
      <3> QED
        BY <1>4, <2>6, <3>2, <3>3 DEF WriteVal
    <2> QED
      BY <1>7, <2>3, <2>4, <2>5, <2>6
  <1>8. CASE WriteChecksum
    <2>1. file \in Seq(DataWords) /\ count = Len(records)
      BY <1>8 DEF WriteChecksum, Phases
    <2>2. whashed' = whashed /\ Append(file, Checksum(whashed)) \in Seq(DataWords \cup {Checksum(whashed)})
      BY <1>8, <2>1 DEF WriteChecksum
    <2> QED
      BY <1>3, <1>5, <1>8, <2>1, <2>2 DEF WriteChecksum
  <1>9. CASE CloseSink \/ WriteFailed
    <2>1. wpc' \in {"closed", "cancelled"} /\ (wpc' = "closed" => count = Len(records))
          /\ UNCHANGED <<count, whashed, file, sourceVars, odd, intact, readerVars>>
      BY <1>9 DEF CloseSink, WriteFailed, fileVars, Phases
    <2>2. file \in Seq(DataWords \cup {Checksum(whashed')})
      BY <2>1 DEF TypeOK
    <2> QED
      BY <1>3, <1>5, <2>1, <2>2
  <1> QED
    BY <1>6, <1>7, <1>8, <1>9 DEF WriteStep

\* Damage leaves a sequence of words.
LEMMA DamageTypes ==
    ASSUME TypeInv,
           \/ \E n \in 0 .. Len(file) - 1, part \in BOOLEAN : Cut(n, part)
           \/ \E i \in 1 .. Len(file), w \in Words : Corrupt(i, w)
    PROVE  TypeInv'
  <1> DEFINE W == DataWords \cup {Checksum(whashed)}
  <1>1. file \in Seq(W) /\ Words \subseteq W
    BY StreamAssumption DEF TypeInv, TypeOK
  <1> HIDE DEF W
  <1>2. /\ wpc = "closed" /\ rpc = "idle" /\ intact' = FALSE
        /\ odd' \in BOOLEAN /\ UNCHANGED <<writerVars, readerVars>>
    BY DEF Cut, Corrupt, TypeInv, TypeOK
  <1>3. file' \in Seq(W)
    <2>1. ASSUME NEW n \in 0 .. Len(file) - 1, file' = SubSeq(file, 1, n)
          PROVE  file' \in Seq(W)
      BY <1>1, <2>1, SubSeqProperties
    <2>2. ASSUME NEW i \in 1 .. Len(file), NEW w \in Words, file' = [file EXCEPT ![i] = w]
          PROVE  file' \in Seq(W)
      BY <1>1, <2>2, ExceptSeq
    <2> QED
      BY <2>1, <2>2 DEF Cut, Corrupt
  <1>4. UNCHANGED <<records, content, wpc, count, whashed, rpc, pos, len, key, rhashed, batch, k, newdb, result>>
    BY <1>2 DEF writerVars, sourceVars, readerVars
  <1>5. pos = 0 /\ 0 \in 0 .. Len(file')
    BY <1>2, <1>3 DEF TypeInv, Phases
  <1>6. TypeOK'
    BY <1>2, <1>3, <1>4, <1>5 DEF TypeInv, TypeOK, W
  <1>7. Phases'
    BY <1>2, <1>4 DEF TypeInv, Phases
  <1> QED
    BY <1>6, <1>7 DEF TypeInv

\* The steps of the reader, one by one.
LEMMA ReadTypes ==
    ASSUME TypeInv, Restore \/ ReadStep
    PROVE  TypeInv'
  <1>1. CASE Restore
    <2>1. UNCHANGED <<records, content, wpc, count, whashed, file, odd, intact, pos, len, key, rhashed, batch, k, newdb, result>>
          /\ wpc = "closed" /\ rpc = "idle" /\ rpc' = "header"
      BY <1>1 DEF Restore, writerVars, sourceVars, fileVars
    <2>2. TypeOK'
      BY <2>1 DEF TypeInv, TypeOK
    <2>3. Phases'
      BY <2>1 DEF TypeInv, Phases
    <2> QED
      BY <2>2, <2>3 DEF TypeInv
  <1>2. CASE ReadStep
    <2> USE <1>2
    <2>1. rpc \notin {"idle", "end"} /\ UNCHANGED <<writerVars, fileVars>>
      BY DEF ReadStep, ReadHeader, HeaderRejected, ReadKeyLen, KeyTooLong, ChecksumMissing, ChecksumRead,
             ChecksumRejected, ReadKey, ReadValLen, RecordEnds, RecordCut, ValTooLong, ValRejected, ReadVal,
             CommitRest, Reject, Break
    <2>2. wpc = "closed" /\ file' = file /\ whashed' = whashed
      BY <2>1 DEF TypeInv, Phases, writerVars, fileVars
    <2>3. /\ rpc \in {"header", "klen", "key", "vlen", "val", "commit"}
          /\ pos \in 0 .. Len(file) /\ len \in Nat /\ rhashed \in Seq(DataWords \cup {Checksum(whashed)})
          /\ batch \in [DOMAIN batch -> Values] /\ k \in 0 .. BatchSize - 1
          /\ k = 0 => batch = Nothing
          /\ newdb \in [DOMAIN newdb -> Values]
          /\ result \in {"none", "verified", "unverified", "rejected", "panic"}
          /\ rpc # "commit" => result = "none"
          /\ rpc = "commit" => result \in {"verified", "unverified"}
      BY <2>1 DEF TypeInv, TypeOK, Phases
    <2>4. SUFFICES ReaderType'
      BY <2>1, <2>2, ReaderFrame
    <2>5. CASE ReadHeader
      <3>1. 1 \in 0 .. Len(file)
        BY <2>3, <2>5 DEF ReadHeader, HeaderOK, ReadAll, Left
      <3> QED
        BY <2>2, <2>3, <2>5, <3>1 DEF ReadHeader, ReaderType
    <2>6. ASSUME Reject PROVE ReaderType'
      BY <2>2, <2>3, <2>6, NothingType, StreamAssumption DEF Reject, ReaderType
    <2>7. ASSUME NEW b, Break(b) PROVE ReaderType'
      BY <2>2, <2>3, <2>7 DEF Break, ReaderType
    <2>8. CASE ReadKeyLen \/ ReadValLen
      <3>1. ReadAll(2) /\ len' \in Lengths(Take(2)) /\ Hash(2) /\ rpc' \in {"key", "val"} /\ rpc # "commit"
            /\ UNCHANGED <<batch, k, newdb, result>>
        BY <2>8 DEF ReadKeyLen, ReadValLen
      <3>2. len' \in Nat /\ pos' \in 0 .. Len(file) /\ rhashed' \in Seq(DataWords \cup {Checksum(whashed)})
        BY <3>1, LengthsType, HashType
      <3> QED
        BY <2>2, <2>3, <3>1, <3>2 DEF ReaderType
    <2>9. CASE ReadKey
      <3>1. pos' \in 0 .. Len(file) /\ rhashed' \in Seq(DataWords \cup {Checksum(whashed)})
        BY <2>3, <2>9, HashType DEF ReadKey
      <3> QED
        BY <2>2, <2>3, <2>9, <3>1 DEF ReadKey, ReaderType
    <2>10. CASE ValTooLong
      BY <2>2, <2>3, <2>10 DEF ValTooLong, ReaderType
    <2>11. CASE ReadVal
      <3>1. ReadAll(1) /\ Take(1)[1][2] \in Values
        BY <2>11, GzipType DEF ReadVal
      <3>2. pos' \in 0 .. Len(file) /\ rhashed' \in Seq(DataWords \cup {Checksum(whashed)})
        BY <2>11, <3>1, HashType DEF ReadVal
      <3>3. DOMAIN Put = DOMAIN batch \cup {key} /\ Put \in [DOMAIN Put -> Values]
        <4> DEFINE p == [x \in {key} |-> Take(1)[1][2]]
        <4>1. p \in [DOMAIN p -> Values] /\ DOMAIN p = {key}
          BY <3>1
        <4> QED
          BY <2>3, <4>1, OverType DEF Put
      <3>4. Over(newdb, Put) \in [DOMAIN Over(newdb, Put) -> Values]
        BY <2>3, <3>3, OverType
      <3>5. /\ batch' \in [DOMAIN batch' -> Values] /\ k' \in 0 .. BatchSize - 1
            /\ k' = 0 => batch' = Nothing
            /\ newdb' \in [DOMAIN newdb' -> Values]
        <4>1. CASE k + 1 >= BatchSize
          BY <2>11, <3>4, <4>1, NothingType, StreamAssumption DEF ReadVal
        <4>2. CASE ~(k + 1 >= BatchSize)
          <5>1. batch' = Put /\ k' = k + 1 /\ newdb' = newdb
            BY <2>11, <4>2 DEF ReadVal
          <5>2. k + 1 \in 0 .. BatchSize - 1 /\ k + 1 # 0
            BY <2>3, <4>2, StreamAssumption
          <5> QED
            BY <2>3, <3>3, <5>1, <5>2
        <4> QED
          BY <4>1, <4>2
      <3> QED
        BY <2>2, <2>3, <2>11, <3>2, <3>5 DEF ReadVal, ReaderType
    <2>12. CASE CommitRest
      <3>1. newdb' \in [DOMAIN newdb' -> Values] /\ batch' \in [DOMAIN batch' -> Values] /\ batch' = Nothing
        BY <2>3, <2>12, OverType, NothingType DEF CommitRest
      <3> QED
        BY <2>2, <2>3, <2>12, <3>1 DEF CommitRest, ReaderType
    <2> QED
      BY <2>5, <2>6, <2>7, <2>8, <2>9, <2>10, <2>11, <2>12
      DEF ReadStep, HeaderRejected, KeyTooLong, ChecksumMissing, ChecksumRead, ChecksumRejected, RecordEnds,
          RecordCut, ValRejected
  <1> QED
    BY <1>1, <1>2

\* The types, and what the phases of a run fix, are inductive.
LEMMA TypeInvNext == TypeInv /\ [Next]_vars => TypeInv'
  <1> SUFFICES ASSUME TypeInv, [Next]_vars PROVE TypeInv'
    OBVIOUS
  <1>1. CASE UNCHANGED vars
    <2>1. UNCHANGED <<records, content, wpc, count, whashed, file, odd, intact, rpc, pos, len, key, rhashed, batch, k, newdb, result>>
      BY <1>1 DEF vars, writerVars, sourceVars, fileVars, readerVars
    <2> QED
      BY <2>1 DEF TypeInv, TypeOK, Phases
  <1> QED
    BY <1>1, WriteTypes, DamageTypes, ReadTypes DEF Next

\* The types and the phases always hold.
LEMMA TypeInvCorrect == Spec => []TypeInv
  BY TypeInvInit, TypeInvNext, PTL DEF Spec

\* No step of saveSnapShot or recoverSnapShot leaves the types: no read goes
\* past the end of the file, and a batch never exceeds its 100 records.
THEOREM StreamTypes == Spec => []TypeOK
  <1>1. TypeInv => TypeOK
    BY DEF TypeInv
  <1> QED
    BY <1>1, TypeInvCorrect, PTL

-----------------------------------------------------------------------------
(* The writer *)

\* whashed grows at its end.
Grows(token) ==
    /\ Len(whashed') = Len(whashed) + Len(token)
    /\ \A i \in 1 .. Len(whashed) : whashed'[i] = whashed[i]
    /\ \A i \in 1 .. Len(token) : whashed'[Len(whashed) + i] = token[i]

\* No record ends after the last one.
LEMMA EndsMonotone ==
    ASSUME count \in Nat, NEW S \in [0 .. count -> Nat], Ends(S), NEW m \in 0 .. count
    PROVE  S[m] <= S[count]
  <1>1. count \in 0 .. count /\ S[m] \in Nat /\ S[count] \in Nat
    OBVIOUS
  <1>2. CASE m = count
    BY <1>1, <1>2
  <1>3. CASE m # count
    <2>1. m < count
      BY <1>3
    <2>2. S[m] < S[count]
      BY <1>1, <2>1 DEF Ends
    <2> QED
      BY <1>1, <2>2
  <1> QED
    BY <1>2, <1>3

\* The records that were written stay where they are when more is hashed.
LEMMA RecordKept ==
    ASSUME TypeInv, \A i \in 1 .. Len(whashed) : whashed'[i] = whashed[i],
           NEW S \in [0 .. count -> Nat], Ends(S), S[count] <= Len(whashed), NEW n \in 0 .. count - 1
    PROVE  /\ S[n + 1] = S[n] + Len(records[n + 1]) + 5
           /\ KeyLenAt(whashed', S[n], records[n + 1]) /\ KeyAt(whashed', S[n], records[n + 1])
           /\ ValLenAt(whashed', S[n], records[n + 1]) /\ ValAt(whashed', S[n], records[n + 1])
  <1>0. count \in Nat /\ count <= Len(records) /\ Len(whashed) \in Nat
        /\ \A m \in 0 .. count : S[m] \in Nat
        /\ records[n + 1] \in Seq(Words)
    <2>1. count \in 0 .. Len(records) /\ records \in Seq(Seq(Words)) /\ whashed \in Seq(DataWords)
      BY DEF TypeInv, TypeOK
    <2>2. count \in Nat /\ count <= Len(records) /\ Len(whashed) \in Nat /\ Len(records) \in Nat
      BY <2>1
    <2>3. n + 1 \in 1 .. Len(records)
      BY <2>2
    <2> QED
      BY <2>1, <2>2, <2>3
  <1> DEFINE x == records[n + 1]
  <1>1. n \in 0 .. count /\ n + 1 \in 0 .. count /\ S[n] \in Nat /\ S[n + 1] \in Nat /\ Len(x) \in Nat
    BY <1>0
  <1>2. S[n + 1] = S[n] + Len(x) + 5 /\ S[n + 1] <= S[count]
    BY <1>0, <1>1, EndsMonotone DEF Ends
  <1>3. S[n] + Len(x) + 5 <= Len(whashed)
    BY <1>0, <1>1, <1>2
  <1>4. KeyLenAt(whashed, S[n], x) /\ KeyAt(whashed, S[n], x) /\ ValLenAt(whashed, S[n], x) /\ ValAt(whashed, S[n], x)
    BY DEF Ends
  <1> HIDE DEF x
  <1>5. ASSUME NEW j \in 1 .. Len(x) + 5
        PROVE  whashed'[S[n] + j] = whashed[S[n] + j]
    <2> DEFINE b == S[n]
               l == Len(x)
    <2>1. b \in Nat /\ l \in Nat /\ b + l + 5 <= Len(whashed) /\ Len(whashed) \in Nat /\ j \in 1 .. l + 5
      BY <1>0, <1>1, <1>3
    <2> HIDE DEF b, l
    <2>2. b + j \in 1 .. Len(whashed)
      BY <2>1
    <2> QED
      BY <2>2 DEF b
  <1>6. KeyLenAt(whashed', S[n], x) /\ ValLenAt(whashed', S[n], x) /\ ValAt(whashed', S[n], x)
    <2>1. 1 \in 1 .. Len(x) + 5 /\ 2 \in 1 .. Len(x) + 5 /\ Len(x) + 3 \in 1 .. Len(x) + 5
          /\ Len(x) + 4 \in 1 .. Len(x) + 5 /\ Len(x) + 5 \in 1 .. Len(x) + 5
          /\ S[n] + (Len(x) + 3) = S[n] + Len(x) + 3 /\ S[n] + (Len(x) + 4) = S[n] + Len(x) + 4
          /\ S[n] + (Len(x) + 5) = S[n] + Len(x) + 5
      BY <1>1
    <2> QED
      BY <1>4, <1>5, <2>1 DEF KeyLenAt, ValLenAt, ValAt
  <1>7. KeyAt(whashed', S[n], x)
    <2>1. ASSUME NEW i \in 1 .. Len(x) PROVE whashed'[S[n] + 2 + i] = x[i]
      <3>1. 2 + i \in 1 .. Len(x) + 5 /\ S[n] + (2 + i) = S[n] + 2 + i
        BY <1>1
      <3> QED
        BY <1>4, <1>5, <3>1 DEF KeyAt
    <2> QED
      BY <2>1 DEF KeyAt
  <1> QED
    BY <1>2, <1>6, <1>7 DEF x

\* The marks stay right when more is hashed.
LEMMA EndsKept ==
    ASSUME TypeInv, UNCHANGED <<records, content, count>>,
           \A i \in 1 .. Len(whashed) : whashed'[i] = whashed[i],
           NEW S \in [0 .. count -> Nat], Ends(S), S[count] <= Len(whashed)
    PROVE  Ends(S)'
  <1>1. count' = count /\ records' = records /\ content' = content
    OBVIOUS
  <1>2. S[0] = 0 /\ \A m, n \in 0 .. count : m < n => S[m] < S[n]
    BY DEF Ends
  <1>3. \A n \in 0 .. count - 1 :
            /\ S[n + 1] = S[n] + Len(records[n + 1]) + 5
            /\ KeyLenAt(whashed', S[n], records[n + 1]) /\ KeyAt(whashed', S[n], records[n + 1])
            /\ ValLenAt(whashed', S[n], records[n + 1]) /\ ValAt(whashed', S[n], records[n + 1])
    BY RecordKept
  <1> QED
    BY <1>1, <1>2, <1>3 DEF Ends, ValAt

\* Before the first write there is one mark, at 0.
LEMMA WriterInvInit == Init => WriterInv
  <1> SUFFICES ASSUME Init PROVE WriterInv
    OBVIOUS
  <1>1. wpc = "start" /\ count = 0 /\ Len(whashed) = 0
    BY DEF Init
  <1> DEFINE S == [n \in 0 .. 0 |-> 0]
  <1>2. S \in [0 .. count -> Nat] /\ S[0] = 0 /\ 0 .. count = {0} /\ 0 .. count - 1 = {}
    BY <1>1
  <1> HIDE DEF S
  <1>3. Layout(S)
    BY <1>1, <1>2 DEF Layout, Ends, Underway
  <1> QED
    BY <1>1, <1>2, <1>3 DEF WriterInv

\* One write of a record: the record that is underway grows by a token.
LEMMA WriteTokenLayout ==
    ASSUME TypeInv, WriterInv, NEW S \in [0 .. count -> Nat], Layout(S),
           NEW at \in {"klen", "key", "vlen", "val"}, NEW token \in Seq(DataWords), NEW next, Write(at, token, next)
    PROVE  /\ Grows(token)
           /\ wpc = at /\ wpc' = next /\ UNCHANGED <<records, content>>
           /\ file' = <<Header("index")>> \o whashed'
           /\ count < Len(records) /\ Key \in Seq(DataWords)
           /\ S[count] \in Nat /\ S[count] <= Len(whashed)
           /\ count' = count => Ends(S)'
  <1>1. wpc = at /\ wpc' = next /\ UNCHANGED <<records, content>> /\ file' = file \o token /\ whashed' = whashed \o token
    BY DEF Write, sourceVars
  <1>2. whashed \in Seq(DataWords) /\ Header("index") \in DataWords /\ file = <<Header("index")>> \o whashed
    BY <1>1 DEF TypeInv, TypeOK, WriterInv, DataWords, Header
  <1>3. Grows(token)
    BY <1>1, <1>2 DEF Grows
  <1>4. file' = <<Header("index")>> \o whashed'
    <2>1. <<Header("index")>> \in Seq(DataWords)
      BY <1>2
    <2> QED
      BY <1>1, <1>2, <2>1, ConcatAssociative
  <1>5. count \in 0 .. Len(records) /\ count < Len(records) /\ Len(records) \in Nat /\ records \in Seq(Seq(Words))
    BY <1>1 DEF TypeInv, TypeOK, Phases
  <1>6. Key \in Seq(DataWords)
    <2>1. records[count + 1] \in Seq(Words)
      BY <1>5
    <2> QED
      BY <2>1, StreamAssumption DEF Key
  <1>7. S[count] \in Nat /\ S[count] <= Len(whashed)
    <2>1. Len(Key) \in Nat /\ Len(whashed) \in Nat /\ S[count] \in Nat
      BY <1>2, <1>5, <1>6
    <2>2. Underway(S[count])
      BY DEF Layout
    <2> DEFINE b == S[count]
    <2>3. Len(whashed) \in {b, b + 2, b + 2 + Len(Key), b + Len(Key) + 4}
      BY <1>1, <2>2 DEF Underway
    <2> HIDE DEF b
    <2>4. b <= Len(whashed)
      BY <2>1, <2>3 DEF b
    <2> QED
      BY <2>1, <2>4 DEF b
  <1>8. count' = count => Ends(S)'
    BY <1>1, <1>3, <1>7, EndsKept DEF Layout, Grows
  <1> QED
    BY <1>1, <1>3, <1>4, <1>5, <1>6, <1>7, <1>8

\* The words a record already has stay where they are.
LEMMA UnderwayKept ==
    ASSUME NEW token, NEW b \in Nat, NEW x \in Seq(DataWords), Grows(token), Len(whashed) \in Nat
    PROVE  /\ KeyLenAt(whashed, b, x) /\ b + 2 <= Len(whashed) => KeyLenAt(whashed', b, x)
           /\ KeyAt(whashed, b, x) /\ b + 2 + Len(x) <= Len(whashed) => KeyAt(whashed', b, x)
           /\ ValLenAt(whashed, b, x) /\ b + Len(x) + 4 <= Len(whashed) => ValLenAt(whashed', b, x)
  <1>1. Len(x) \in Nat /\ \A i \in 1 .. Len(whashed) : whashed'[i] = whashed[i]
    BY DEF Grows
  <1>2. ASSUME KeyLenAt(whashed, b, x), b + 2 <= Len(whashed) PROVE KeyLenAt(whashed', b, x)
    <2>1. b + 1 \in 1 .. Len(whashed) /\ b + 2 \in 1 .. Len(whashed)
      BY <1>2
    <2> QED
      BY <1>1, <1>2, <2>1 DEF KeyLenAt
  <1>3. ASSUME KeyAt(whashed, b, x), b + 2 + Len(x) <= Len(whashed) PROVE KeyAt(whashed', b, x)
    <2>1. ASSUME NEW i \in 1 .. Len(x) PROVE whashed'[b + 2 + i] = x[i]
      <3>1. b + 2 + i \in 1 .. Len(whashed)
        BY <1>1, <1>3
      <3> QED
        BY <1>1, <1>3, <3>1 DEF KeyAt
    <2> QED
      BY <2>1 DEF KeyAt
  <1>4. ASSUME ValLenAt(whashed, b, x), b + Len(x) + 4 <= Len(whashed) PROVE ValLenAt(whashed', b, x)
    <2>1. b + Len(x) + 3 \in 1 .. Len(whashed) /\ b + Len(x) + 4 \in 1 .. Len(whashed)
      BY <1>1, <1>4
    <2> QED
      BY <1>1, <1>4, <2>1 DEF ValLenAt
  <1> QED
    BY <1>2, <1>3, <1>4

\* Steps after which the records and their places are the same.
LEMMA LayoutKept ==
    ASSUME NEW S, UNCHANGED <<records, content, count, whashed>>,
           wpc' = wpc \/ {wpc, wpc'} \subseteq {"start", "klen", "checksum", "close", "closed"}
    PROVE  Layout(S)' <=> Layout(S)
  <1>1. Ends(S)' <=> Ends(S)
    BY DEF Ends, KeyLenAt, KeyAt, ValLenAt, ValAt
  <1>2. Underway(S[count])' <=> Underway(S[count])
    BY DEF Underway, KeyLenAt, KeyAt, ValLenAt, Key
  <1> QED
    BY <1>1, <1>2 DEF Layout

\* Each write of saveSnapShot extends the layout; damage and the reader leave it alone.
LEMMA WriterInvNext == TypeInv /\ WriterInv /\ [Next]_vars => WriterInv'
  <1> SUFFICES ASSUME TypeInv, WriterInv, [Next]_vars, wpc' # "cancelled" PROVE WriterInv'
    BY DEF WriterInv
  <1>0. wpc # "cancelled"
    BY DEF Next, WriteStep, WriteFailed, WriteHeader, WriteKeyLen, WriteKey, WriteValLen, WriteVal, Write, WriteChecksum,
           CloseSink, Cut, Corrupt, Restore, ReadStep, ReadHeader, HeaderRejected, ReadKeyLen, KeyTooLong,
           ChecksumMissing, ChecksumRead, ChecksumRejected, ReadKey, ReadValLen, RecordEnds, RecordCut, ValTooLong,
           ValRejected, ReadVal, CommitRest, Reject, Break, vars, writerVars
  <1>1. PICK S \in [0 .. count -> Nat] : Layout(S)
    BY <1>0 DEF WriterInv
  <1>2. count \in Nat /\ S[count] \in Nat /\ Len(whashed) \in Nat /\ whashed \in Seq(DataWords)
    BY DEF TypeInv, TypeOK
  <1>3. CASE WriteHeader
    <2>1. wpc = "start" /\ wpc' \in {"klen", "checksum"} /\ UNCHANGED <<records, content, count, whashed>>
          /\ file' = <<Header("index")>>
      BY <1>3 DEF WriteHeader, NextRecord, sourceVars
    <2>2. Layout(S)'
      BY <1>1, <2>1, LayoutKept
    <2>3. Len(whashed) = 0
      BY <1>1, <2>1 DEF Layout, Underway, Ends, TypeInv, Phases
    <2>4. <<Header("index")>> = <<Header("index")>> \o whashed
      BY <1>2, <2>3, EmptySeq, ConcatEmptySeq DEF Header
    <2> QED
      BY <2>1, <2>2, <2>4 DEF WriterInv
  <1>4. CASE WriteKeyLen
    <2> DEFINE token == <<Num(Len(Key)), Num(0)>>
    <2>1. count + 1 \in 1 .. Len(records) /\ Key \in Seq(Words)
      BY <1>4 DEF WriteKeyLen, Write, TypeInv, TypeOK, Phases, Key
    <2>2. token \in Seq(DataWords)
      BY <2>1 DEF DataWords, Num
    <2>3. Write("klen", token, "key") /\ count' = count
      BY <1>4 DEF WriteKeyLen
    <2> HIDE DEF token
    <2>4. /\ Grows(token) /\ wpc = "klen" /\ wpc' = "key" /\ UNCHANGED <<records, content>>
          /\ file' = <<Header("index")>> \o whashed' /\ Ends(S)'
      BY <1>1, <2>2, <2>3, WriteTokenLayout
    <2>5. Len(whashed) = S[count] /\ Key' = Key
      BY <1>1, <2>3, <2>4 DEF Layout, Underway, Key
    <2>6. Len(whashed') = S[count] + 2 /\ KeyLenAt(whashed', S[count], Key)
      <3>1. Len(token) = 2 /\ token[1] = Num(Len(Key)) /\ token[2] = Num(0)
        BY DEF token
      <3>2. Len(whashed') = Len(whashed) + 2 /\ \A i \in 1 .. 2 : whashed'[Len(whashed) + i] = token[i]
        BY <2>4, <3>1 DEF Grows
      <3> QED
        BY <2>5, <3>1, <3>2 DEF KeyLenAt
    <2>7. Layout(S)'
      BY <2>3, <2>4, <2>5, <2>6 DEF Layout, Underway
    <2> QED
      BY <2>3, <2>4, <2>7 DEF WriterInv
  <1>5. CASE WriteKey
    <2>1. Key \in Seq(DataWords)
      <3>1. count + 1 \in 1 .. Len(records) /\ records \in Seq(Seq(Words))
        BY <1>5 DEF WriteKey, Write, TypeInv, TypeOK, Phases
      <3>2. records[count + 1] \in Seq(Words)
        BY <3>1
      <3> QED
        BY <3>2, StreamAssumption DEF Key
    <2>2. Write("key", Key, "vlen") /\ count' = count
      BY <1>5 DEF WriteKey
    <2>3. /\ Grows(Key) /\ wpc = "key" /\ wpc' = "vlen" /\ UNCHANGED <<records, content>>
          /\ file' = <<Header("index")>> \o whashed' /\ Ends(S)'
      BY <1>1, <2>1, <2>2, WriteTokenLayout
    <2>4. Len(whashed) = S[count] + 2 /\ KeyLenAt(whashed, S[count], Key) /\ Key' = Key /\ Len(Key) \in Nat
      BY <1>1, <2>1, <2>2, <2>3 DEF Layout, Underway, Key
    <2>5. KeyLenAt(whashed', S[count], Key)
      BY <1>2, <2>1, <2>3, <2>4, UnderwayKept
    <2>6. Len(whashed') = S[count] + 2 + Len(Key) /\ KeyAt(whashed', S[count], Key)
      <3>1. \A i \in 1 .. Len(Key) : whashed'[S[count] + 2 + i] = Key[i]
        BY <2>3, <2>4 DEF Grows
      <3> QED
        BY <2>2, <2>3, <2>4, <3>1 DEF Grows, KeyAt
    <2>7. Layout(S)'
      BY <2>2, <2>3, <2>4, <2>5, <2>6 DEF Layout, Underway
    <2> QED
      BY <2>2, <2>3, <2>7 DEF WriterInv
  <1>6. CASE WriteValLen
    <2> DEFINE token == <<Num(1), Num(0)>>
    <2>1. token \in Seq(DataWords)
      BY DEF DataWords, Num
    <2>2. Write("vlen", token, "val") /\ count' = count
      BY <1>6 DEF WriteValLen
    <2> HIDE DEF token
    <2>3. /\ Grows(token) /\ wpc = "vlen" /\ wpc' = "val" /\ UNCHANGED <<records, content>>
          /\ file' = <<Header("index")>> \o whashed' /\ Ends(S)' /\ Key \in Seq(DataWords)
      BY <1>1, <2>1, <2>2, WriteTokenLayout
    <2>4. /\ Len(whashed) = S[count] + 2 + Len(Key) /\ Key' = Key /\ Len(Key) \in Nat
          /\ KeyLenAt(whashed, S[count], Key) /\ KeyAt(whashed, S[count], Key)
      BY <1>1, <2>2, <2>3 DEF Layout, Underway, Key
    <2>5. KeyLenAt(whashed', S[count], Key) /\ KeyAt(whashed', S[count], Key)
      BY <1>2, <2>3, <2>4, UnderwayKept
    <2>6. Len(whashed') = S[count] + Len(Key) + 4 /\ ValLenAt(whashed', S[count], Key)
      <3>1. Len(token) = 2 /\ whashed'[Len(whashed) + 1] = Num(1) /\ whashed'[Len(whashed) + 2] = Num(0)
        BY <2>3 DEF Grows, token
      <3>2. Len(whashed) + 1 = S[count] + Len(Key) + 3 /\ Len(whashed) + 2 = S[count] + Len(Key) + 4
        BY <1>2, <2>4
      <3> QED
        BY <2>3, <3>1, <3>2 DEF Grows, ValLenAt
    <2>7. Layout(S)'
      BY <2>2, <2>3, <2>4, <2>5, <2>6 DEF Layout, Underway
    <2> QED
      BY <2>2, <2>3, <2>7 DEF WriterInv
  <1>7. CASE WriteVal
    <2> DEFINE token == <<Gzip(content[Key])>>
    <2>1. token \in Seq(DataWords)
      <3>1. count + 1 \in DOMAIN records /\ content \in [Range(records) -> Values]
        BY <1>7 DEF WriteVal, Write, TypeInv, TypeOK, Phases
      <3>2. content[Key] \in Values
        BY <3>1 DEF Key, Range
      <3> QED
        BY <3>2 DEF DataWords, Gzip
    <2>2. Write("val", token, NextRecord(count + 1)) /\ count' = count + 1
      BY <1>7 DEF WriteVal
    <2> HIDE DEF token
    <2>3. /\ Grows(token) /\ wpc = "val" /\ wpc' \in {"klen", "checksum"} /\ UNCHANGED <<records, content>>
          /\ file' = <<Header("index")>> \o whashed' /\ Key \in Seq(DataWords)
          /\ S[count] <= Len(whashed)
      BY <1>1, <2>1, <2>2, WriteTokenLayout DEF NextRecord
    <2>4. /\ Len(whashed) = S[count] + Len(Key) + 4 /\ Len(Key) \in Nat
          /\ KeyLenAt(whashed, S[count], Key) /\ KeyAt(whashed, S[count], Key) /\ ValLenAt(whashed, S[count], Key)
      BY <1>1, <2>3 DEF Layout, Underway
    <2>5. KeyLenAt(whashed', S[count], Key) /\ KeyAt(whashed', S[count], Key) /\ ValLenAt(whashed', S[count], Key)
      BY <1>2, <2>3, <2>4, UnderwayKept
    <2>6. Len(whashed') = S[count] + Len(Key) + 5 /\ ValAt(whashed', S[count], Key)
      <3>1. Len(token) = 1 /\ whashed'[Len(whashed) + 1] = Gzip(content[Key])
        BY <2>3 DEF Grows, token
      <3>2. Len(whashed) + 1 = S[count] + Len(Key) + 5
        BY <1>2, <2>4
      <3> QED
        BY <2>3, <3>1, <3>2 DEF Grows, ValAt
    <2>7. PICK T \in [0 .. count + 1 -> Nat] :
              T[count + 1] = S[count] + Len(Key) + 5 /\ \A n \in 0 .. count : T[n] = S[n]
      <3> DEFINE U == [n \in 0 .. count + 1 |-> IF n <= count THEN S[n] ELSE S[count] + Len(Key) + 5]
      <3>1. /\ U \in [0 .. count + 1 -> Nat] /\ U[count + 1] = S[count] + Len(Key) + 5
            /\ \A n \in 0 .. count : U[n] = S[n]
        BY <1>2, <2>4
      <3> HIDE DEF U
      <3> QED
        BY <3>1
    <2>8. ASSUME NEW n \in 0 .. count
          PROVE  /\ T[n + 1] = T[n] + Len(records[n + 1]) + 5
                 /\ KeyLenAt(whashed', T[n], records[n + 1]) /\ KeyAt(whashed', T[n], records[n + 1])
                 /\ ValLenAt(whashed', T[n], records[n + 1]) /\ ValAt(whashed', T[n], records[n + 1])
      <3>1. CASE n = count
        BY <2>5, <2>6, <2>7, <3>1 DEF Key
      <3>2. CASE n # count
        <4>1. n \in 0 .. count - 1 /\ n + 1 \in 0 .. count
          BY <1>2, <3>2
        <4>2. \A i \in 1 .. Len(whashed) : whashed'[i] = whashed[i]
          BY <2>3 DEF Grows
        <4>3. /\ S[n + 1] = S[n] + Len(records[n + 1]) + 5
              /\ KeyLenAt(whashed', S[n], records[n + 1]) /\ KeyAt(whashed', S[n], records[n + 1])
              /\ ValLenAt(whashed', S[n], records[n + 1]) /\ ValAt(whashed', S[n], records[n + 1])
          BY <1>1, <2>3, <4>1, <4>2, RecordKept DEF Layout
        <4> QED
          BY <2>7, <4>1, <4>3
      <3> QED
        BY <3>1, <3>2
    <2>9. ASSUME NEW m \in 0 .. count + 1, NEW n \in 0 .. count + 1, m < n
          PROVE  T[m] < T[n]
      <3>1. m \in 0 .. count /\ T[m] = S[m] /\ S[m] \in Nat
        BY <1>2, <2>7, <2>9
      <3>2. CASE n = count + 1
        <4>1. S[m] <= S[count]
          BY <1>1, <1>2, <3>1, EndsMonotone DEF Layout
        <4> QED
          BY <1>2, <2>4, <2>7, <3>1, <3>2, <4>1
      <3>3. CASE n # count + 1
        BY <1>1, <1>2, <2>7, <2>9, <3>1, <3>3 DEF Layout, Ends
      <3> QED
        BY <3>2, <3>3
    <2>10. Ends(T)'
      <3>1. T[0] = 0 /\ 0 .. count' - 1 = 0 .. count /\ 0 .. count' = 0 .. count + 1
        BY <1>1, <1>2, <2>2, <2>7 DEF Layout, Ends
      <3>2. \A n \in 0 .. count :
                /\ T[n + 1] = T[n] + Len(records'[n + 1]) + 5
                /\ KeyLenAt(whashed', T[n], records'[n + 1]) /\ KeyAt(whashed', T[n], records'[n + 1])
                /\ ValLenAt(whashed', T[n], records'[n + 1]) /\ ValAt(whashed, T[n], records[n + 1])'
        BY <2>3, <2>8 DEF ValAt
      <3> QED
        BY <2>9, <3>1, <3>2 DEF Ends
    <2>11. Layout(T)'
      BY <2>2, <2>3, <2>6, <2>7, <2>10 DEF Layout, Underway
    <2> QED
      BY <2>2, <2>3, <2>7, <2>11 DEF WriterInv
  <1>8. CASE WriteChecksum
    <2>1. wpc = "checksum" /\ wpc' = "close" /\ UNCHANGED <<records, content, count, whashed>>
          /\ file' = Append(file, Checksum(whashed)) /\ file = <<Header("index")>> \o whashed
      BY <1>0, <1>8 DEF WriteChecksum, sourceVars, WriterInv
    <2>2. Layout(S)'
      BY <1>1, <2>1, LayoutKept
    <2>3. file \in Seq(DataWords \cup {Checksum(whashed)})
      BY DEF TypeInv, TypeOK
    <2>4. file' = Stream'
      <3>1. Append(file, Checksum(whashed)) = file \o <<Checksum(whashed)>>
        BY <2>3, AppendIsConcat
      <3> QED
        BY <2>1, <3>1 DEF Stream
    <2> QED
      BY <2>1, <2>2, <2>4 DEF WriterInv
  <1>9. CASE CloseSink
    <2>1. wpc = "close" /\ wpc' = "closed" /\ UNCHANGED <<records, content, count, whashed, file, intact>>
      BY <1>9 DEF CloseSink, sourceVars, fileVars
    <2>2. Layout(S)' /\ Stream' = Stream
      BY <1>1, <2>1, LayoutKept DEF Stream
    <2> QED
      BY <1>0, <2>1, <2>2 DEF WriterInv
  <1>10. ASSUME UNCHANGED writerVars PROVE Layout(S)' /\ Stream' = Stream /\ UNCHANGED <<count, wpc, whashed>>
    <2>1. UNCHANGED <<records, content, count, whashed, wpc>>
      BY <1>10 DEF writerVars, sourceVars
    <2> QED
      BY <1>1, <2>1, LayoutKept DEF Stream
  <1>11. CASE \/ \E n \in 0 .. Len(file) - 1, part \in BOOLEAN : Cut(n, part)
              \/ \E i \in 1 .. Len(file), w \in Words : Corrupt(i, w)
    <2>1. UNCHANGED writerVars /\ intact' = FALSE /\ wpc = "closed"
      BY <1>11 DEF Cut, Corrupt
    <2> QED
      BY <1>10, <2>1 DEF WriterInv
  <1>12. CASE Restore \/ ReadStep \/ UNCHANGED vars
    <2>1. UNCHANGED <<writerVars, fileVars>>
      BY <1>12 DEF vars, Restore, ReadStep, ReadHeader, HeaderRejected, ReadKeyLen, KeyTooLong,
             ChecksumMissing, ChecksumRead, ChecksumRejected, ReadKey, ReadValLen, RecordEnds, RecordCut,
             ValTooLong, ValRejected, ReadVal, CommitRest, Reject, Break
    <2>2. UNCHANGED writerVars /\ UNCHANGED <<file, intact>>
      BY <2>1 DEF fileVars
    <2> QED
      BY <1>0, <1>10, <2>2 DEF WriterInv
  <1> QED
    BY <1>3, <1>4, <1>5, <1>6, <1>7, <1>8, <1>9, <1>11, <1>12 DEF Next, WriteStep, WriteFailed

\* The records are in the stream, one after the other, in the order of the iterator.
LEMMA WriterInvCorrect == Spec => []WriterInv
  BY TypeInvCorrect, WriterInvInit, WriterInvNext, PTL DEF Spec

-----------------------------------------------------------------------------
(* The reader *)

\* The words of a stream that was at most cut.
LEMMA CutWords ==
    ASSUME TypeInv, AtMostCut
    PROVE  /\ Len(file) <= Len(whashed) + 2
           /\ Len(file) >= 1 => file[1] = Header("index")
           /\ \A j \in 1 .. Len(whashed) : j + 1 <= Len(file) => file[j + 1] = whashed[j]
           /\ Len(file) = Len(whashed) + 2 => file[Len(file)] = Checksum(whashed)
  <1>1. whashed \in Seq(DataWords) /\ Len(whashed) \in Nat /\ file \in Seq(DataWords \cup {Checksum(whashed)})
    BY DEF TypeInv, TypeOK
  <1> DEFINE W == DataWords \cup {Checksum(whashed)}
             H == <<Header("index")>>
             C == <<Checksum(whashed)>>
  <1>2. H \in Seq(W) /\ C \in Seq(W) /\ whashed \in Seq(W) /\ Len(H) = 1 /\ Len(C) = 1
        /\ H[1] = Header("index") /\ C[1] = Checksum(whashed)
    BY <1>1 DEF DataWords, Header
  <1>3. Stream = (H \o whashed) \o C
    BY DEF Stream
  <1> HIDE DEF W, H, C
  <1>4. /\ H \o whashed \in Seq(W) /\ Len(H \o whashed) = 1 + Len(whashed)
        /\ (H \o whashed)[1] = Header("index")
        /\ \A j \in 1 .. Len(whashed) : (H \o whashed)[j + 1] = whashed[j]
    <2>1. /\ H \o whashed \in Seq(W) /\ Len(H \o whashed) = 1 + Len(whashed)
          /\ 1 \in 1 .. Len(H) /\ (H \o whashed)[1] = Header("index")
          /\ \A j \in 1 .. Len(whashed) : (H \o whashed)[1 + j] = whashed[j]
      <3>0. H \in Seq(W) /\ whashed \in Seq(W)
        BY <1>2
      <3>1. /\ H \o whashed \in Seq(W) /\ Len(H \o whashed) = Len(H) + Len(whashed)
            /\ \A i \in 1 .. Len(H) : (H \o whashed)[i] = H[i]
            /\ \A i \in 1 .. Len(whashed) : (H \o whashed)[Len(H) + i] = whashed[i]
        BY <3>0
      <3> QED
        BY <1>2, <3>1
    <2>2. \A j \in 1 .. Len(whashed) : 1 + j = j + 1
      OBVIOUS
    <2> QED
      BY <2>1, <2>2
  <1>5. Stream \in Seq(W) /\ Len(Stream) = Len(whashed) + 2
    BY <1>1, <1>2, <1>3, <1>4
  <1>6. /\ Stream[1] = Header("index")
        /\ \A j \in 1 .. Len(whashed) : Stream[j + 1] = whashed[j]
        /\ Stream[Len(whashed) + 2] = Checksum(whashed)
    BY <1>1, <1>2, <1>3, <1>4
  <1>7. PICK n \in 0 .. Len(Stream) : file = SubSeq(Stream, 1, n)
    BY DEF AtMostCut
  <1>8. Len(file) = n /\ \A i \in 1 .. n : file[i] = Stream[i]
    BY <1>5, <1>7, SubSeqProperties
  <1> QED
    BY <1>1, <1>5, <1>6, <1>8

\* A file that nothing happened to is the whole stream.
LEMMA IntactFile ==
    ASSUME TypeInv, WriterInv, wpc = "closed", intact
    PROVE  AtMostCut /\ Len(file) = Len(whashed) + 2
  <1>1. whashed \in Seq(DataWords) /\ Len(whashed) \in Nat
    BY DEF TypeInv, TypeOK
  <1>2. file = Stream
    BY DEF WriterInv
  <1>3. file \in Seq(DataWords \cup {Checksum(whashed)})
    BY DEF TypeInv, TypeOK
  <1>4. Len(Stream) = Len(whashed) + 2
    BY <1>1 DEF Stream
  <1>5. SubSeq(Stream, 1, Len(Stream)) = Stream
    BY <1>2, <1>3, SubSeqFull
  <1> QED
    BY <1>1, <1>2, <1>4, <1>5 DEF AtMostCut

\* The place of a record in the stream.
LEMMA Place ==
    ASSUME TypeInv, wpc = "closed", NEW S \in [0 .. count -> Nat], Layout(S), NEW n \in 0 .. Len(records)
    PROVE  /\ S[n] \in Nat /\ S[n] <= Len(whashed) /\ Len(whashed) \in Nat
           /\ S[n] = Len(whashed) => n = Len(records)
           /\ n = Len(records) => S[n] = Len(whashed)
           /\ n # Len(records) =>
                 /\ n + 1 \in 0 .. Len(records) /\ records[n + 1] \in Seq(DataWords) /\ Len(records[n + 1]) \in Nat
                 /\ records[n + 1] \in DOMAIN content /\ Len(records[n + 1]) <= MaxLen
                 /\ S[n + 1] = S[n] + Len(records[n + 1]) + 5 /\ S[n + 1] <= Len(whashed)
                 /\ KeyLenAt(whashed, S[n], records[n + 1]) /\ KeyAt(whashed, S[n], records[n + 1])
                 /\ ValLenAt(whashed, S[n], records[n + 1]) /\ ValAt(whashed, S[n], records[n + 1])
  <1>1. count = Len(records) /\ count \in Nat /\ Len(whashed) \in Nat /\ records \in Seq(Seq(Words))
        /\ \A i \in 1 .. Len(records) : records[i] \in Seq(Words) /\ Len(records[i]) <= MaxLen
    BY DEF TypeInv, TypeOK, Phases
  <1>2. Len(whashed) = S[count]
    BY DEF Layout, Underway
  <1>3. Ends(S)
    BY DEF Layout
  <1>4. S[n] \in Nat /\ S[n] <= Len(whashed)
    BY <1>1, <1>2, <1>3, EndsMonotone
  <1>5. S[n] = Len(whashed) => n = Len(records)
    <2>1. ASSUME n # count PROVE S[n] # S[count]
      <3>1. n \in 0 .. count /\ count \in 0 .. count /\ n < count /\ S[count] \in Nat
        BY <1>1, <2>1
      <3>2. S[n] < S[count]
        BY <1>3, <3>1 DEF Ends
      <3> QED
        BY <1>4, <3>1, <3>2
    <2> QED
      BY <1>1, <1>2, <2>1
  <1>6. ASSUME n # Len(records)
        PROVE  /\ n + 1 \in 0 .. Len(records) /\ records[n + 1] \in Seq(DataWords) /\ Len(records[n + 1]) \in Nat
               /\ records[n + 1] \in DOMAIN content /\ Len(records[n + 1]) <= MaxLen
    <2>1. n + 1 \in 1 .. Len(records)
      BY <1>1, <1>6
    <2>2. records[n + 1] \in Seq(Words) /\ Len(records[n + 1]) <= MaxLen
      BY <1>1, <2>1
    <2>3. records[n + 1] \in Seq(DataWords)
      BY <2>2, StreamAssumption
    <2>4. records[n + 1] \in DOMAIN content
      BY <1>1, <2>1 DEF TypeInv, TypeOK, Range
    <2> QED
      BY <2>1, <2>2, <2>3, <2>4
  <1>7. ASSUME n # Len(records)
        PROVE  /\ S[n + 1] = S[n] + Len(records[n + 1]) + 5 /\ S[n + 1] <= Len(whashed)
               /\ KeyLenAt(whashed, S[n], records[n + 1]) /\ KeyAt(whashed, S[n], records[n + 1])
               /\ ValLenAt(whashed, S[n], records[n + 1]) /\ ValAt(whashed, S[n], records[n + 1])
    <2>1. n \in 0 .. count - 1 /\ n + 1 \in 0 .. count
      BY <1>1, <1>7
    <2>2. S[n + 1] <= Len(whashed)
      BY <1>1, <1>2, <1>3, <2>1, EndsMonotone
    <2> QED
      BY <1>3, <2>1, <2>2 DEF Ends
  <1> QED
    BY <1>1, <1>2, <1>4, <1>5, <1>6, <1>7

\* Reading n words, in step or not.
LEMMA HashStep ==
    ASSUME TypeInv, ReaderInv, Reading, NEW n \in Nat, ReadAll(n)
    PROVE  /\ Len(rhashed) \in Nat /\ pos = Len(rhashed) + 1
           /\ \A i \in 1 .. n : Take(n)[i] = file[Len(rhashed) + i + 1]
           /\ Hash(n) =>
                 /\ Len(rhashed') = Len(rhashed) + n /\ pos' = Len(rhashed') + 1
                 /\ \A i \in 1 .. Len(rhashed') : rhashed'[i] = file[i + 1]
                 /\ \A i \in 1 .. Len(rhashed) : rhashed'[i] = rhashed[i]
                 /\ \A i \in 1 .. n : rhashed'[Len(rhashed) + i] = Take(n)[i]
  <1>1. rhashed \in Seq(DataWords \cup {Checksum(whashed)}) /\ pos = Len(rhashed) + 1
        /\ \A i \in 1 .. Len(rhashed) : rhashed[i] = file[i + 1]
    BY DEF TypeInv, TypeOK, ReaderInv
  <1>2. /\ Take(n) \in Seq(DataWords \cup {Checksum(whashed)}) /\ Len(Take(n)) = n
        /\ \A i \in 1 .. n : Take(n)[i] = file[Len(rhashed) + i + 1]
    <2>1. /\ Take(n) \in Seq(DataWords \cup {Checksum(whashed)}) /\ Len(Take(n)) = n
          /\ \A i \in 1 .. n : Take(n)[i] = file[pos + i]
      BY TakeType
    <2>2. \A i \in 1 .. n : pos + i = Len(rhashed) + i + 1
      BY <1>1
    <2> QED
      BY <2>1, <2>2
  <1>3. ASSUME Hash(n)
        PROVE  /\ Len(rhashed') = Len(rhashed) + n /\ pos' = Len(rhashed') + 1
               /\ \A i \in 1 .. Len(rhashed) : rhashed'[i] = rhashed[i]
               /\ \A i \in 1 .. n : rhashed'[Len(rhashed) + i] = Take(n)[i]
    <2>1. rhashed' = rhashed \o Take(n) /\ pos' = pos + n
      BY <1>3 DEF Hash
    <2>2. /\ Len(rhashed \o Take(n)) = Len(rhashed) + n
          /\ \A i \in 1 .. Len(rhashed) : (rhashed \o Take(n))[i] = rhashed[i]
          /\ \A i \in 1 .. n : (rhashed \o Take(n))[Len(rhashed) + i] = Take(n)[i]
      <3>0. \E T : rhashed \in Seq(T) /\ Take(n) \in Seq(T)
        BY <1>1, <1>2
      <3>1. /\ Len(rhashed \o Take(n)) = Len(rhashed) + Len(Take(n))
            /\ \A i \in 1 .. Len(rhashed) : (rhashed \o Take(n))[i] = rhashed[i]
            /\ \A i \in 1 .. Len(Take(n)) : (rhashed \o Take(n))[Len(rhashed) + i] = Take(n)[i]
        BY <3>0
      <3> QED
        BY <1>2, <3>1
    <2>3. Len(rhashed) \in Nat
      BY <1>1
    <2> QED
      BY <1>1, <2>1, <2>2, <2>3
  <1>4. ASSUME Hash(n), NEW i \in 1 .. Len(rhashed') PROVE rhashed'[i] = file[i + 1]
    <2>1. CASE i \in 1 .. Len(rhashed)
      BY <1>1, <1>3, <1>4, <2>1
    <2>2. CASE i \notin 1 .. Len(rhashed)
      <3>1. i - Len(rhashed) \in 1 .. n /\ Len(rhashed) + (i - Len(rhashed)) = i
        BY <1>1, <1>3, <1>4, <2>2
      <3>2. rhashed'[i] = Take(n)[i - Len(rhashed)] /\ Take(n)[i - Len(rhashed)] = file[i + 1]
        BY <1>2, <1>3, <1>4, <3>1
      <3> QED
        BY <3>2
    <2> QED
      BY <2>1, <2>2
  <1>5. Len(rhashed) \in Nat
    BY <1>1
  <1> QED
    BY <1>1, <1>2, <1>3, <1>4, <1>5, Zenon

\* Words read from a stream that was at most cut are the words written.
LEMMA CutTake ==
    ASSUME TypeInv, ReaderInv, Reading, AtMostCut, NEW n \in Nat, ReadAll(n), Len(rhashed) + n <= Len(whashed)
    PROVE  \A i \in 1 .. n : Take(n)[i] = whashed[Len(rhashed) + i]
  <1>1. Len(rhashed) \in Nat /\ pos = Len(rhashed) + 1 /\ Len(whashed) \in Nat /\ Len(file) \in Nat /\ pos + n <= Len(file)
    BY HashStep DEF TypeInv, TypeOK, ReadAll, Left
  <1>2. ASSUME NEW i \in 1 .. n PROVE Take(n)[i] = whashed[Len(rhashed) + i]
    <2>1. Len(rhashed) + i \in 1 .. Len(whashed) /\ Len(rhashed) + i + 1 <= Len(file)
      BY <1>1
    <2>2. Take(n)[i] = file[Len(rhashed) + i + 1]
      BY HashStep
    <2> QED
      BY <2>1, <2>2, CutWords
  <1> QED
    BY <1>2

\* How reading n words moves the reader with respect to the writer.
LEMMA AgreesStep ==
    ASSUME TypeInv, ReaderInv, Reading, NEW n \in Nat, ReadAll(n), Hash(n), UNCHANGED <<file, whashed>>
    PROVE  /\ Agrees' => /\ Agrees /\ Len(rhashed) + n <= Len(whashed)
                         /\ \A i \in 1 .. n : Take(n)[i] = whashed[Len(rhashed) + i]
           /\ Agrees /\ AtMostCut /\ Len(rhashed) + n <= Len(whashed) => Agrees'
  <1>1. /\ Len(rhashed) \in Nat /\ Len(rhashed') = Len(rhashed) + n /\ Len(whashed) \in Nat
        /\ \A i \in 1 .. Len(rhashed) : rhashed'[i] = rhashed[i]
        /\ \A i \in 1 .. n : rhashed'[Len(rhashed) + i] = Take(n)[i]
    BY HashStep DEF TypeInv, TypeOK
  <1>2. ASSUME Agrees'
        PROVE  /\ Agrees /\ Len(rhashed) + n <= Len(whashed)
               /\ \A i \in 1 .. n : Take(n)[i] = whashed[Len(rhashed) + i]
    <2>1. Len(rhashed) + n <= Len(whashed) /\ \A i \in 1 .. Len(rhashed') : rhashed'[i] = whashed[i]
      BY <1>1, <1>2 DEF Agrees
    <2>2. Agrees
      <3>1. ASSUME NEW i \in 1 .. Len(rhashed) PROVE rhashed[i] = whashed[i]
        <4>1. i \in 1 .. Len(rhashed')
          BY <1>1
        <4> QED
          BY <1>1, <2>1, <4>1
      <3> QED
        BY <1>1, <2>1, <3>1 DEF Agrees
    <2>3. ASSUME NEW i \in 1 .. n PROVE Take(n)[i] = whashed[Len(rhashed) + i]
      <3>1. Len(rhashed) + i \in 1 .. Len(rhashed')
        BY <1>1
      <3> QED
        BY <1>1, <2>1, <3>1
    <2> QED
      BY <2>1, <2>2, <2>3
  <1>3. ASSUME Agrees, AtMostCut, Len(rhashed) + n <= Len(whashed)
        PROVE  Agrees'
    <2>1. \A i \in 1 .. n : Take(n)[i] = whashed[Len(rhashed) + i]
      BY <1>3, CutTake
    <2>2. ASSUME NEW i \in 1 .. Len(rhashed') PROVE rhashed'[i] = whashed[i]
      <3>1. CASE i \in 1 .. Len(rhashed)
        BY <1>1, <1>3, <3>1 DEF Agrees
      <3>2. CASE i \notin 1 .. Len(rhashed)
        <4>1. i - Len(rhashed) \in 1 .. n /\ Len(rhashed) + (i - Len(rhashed)) = i
          BY <1>1, <3>2
        <4>2. rhashed'[i] = Take(n)[i - Len(rhashed)] /\ Take(n)[i - Len(rhashed)] = whashed[i]
          BY <1>1, <2>1, <4>1
        <4> QED
          BY <4>2
      <3> QED
        BY <3>1, <3>2
    <2> QED
      BY <1>1, <1>3, <2>2 DEF Agrees
  <1> QED
    BY <1>2, <1>3

\* In step, the next read of a stream that was at most cut is the next token.
LEMMA NextToken ==
    ASSUME TypeInv, ReaderInv, Reading, Agrees, wpc = "closed", NEW S \in [0 .. count -> Nat], Layout(S),
           NEW n \in 0 .. Len(records), At(S, n), AtMostCut
    PROVE  /\ rpc = "klen" /\ ReadAll(2) => Len(rhashed) + 2 <= Len(whashed)
           /\ rpc = "key" => Len(rhashed) + len <= Len(whashed)
           /\ rpc = "vlen" => Len(rhashed) + 2 <= Len(whashed)
           /\ rpc = "val" => Len(rhashed) + 1 <= Len(whashed)
  <1>1. Len(rhashed) \in Nat /\ pos = Len(rhashed) + 1 /\ Len(file) \in Nat /\ Len(file) <= Len(whashed) + 2
    BY CutWords DEF TypeInv, TypeOK, ReaderInv
  <1>2. CASE rpc = "klen"
    <2>1. Len(rhashed) = S[n]
      BY <1>2 DEF At
    <2>2. n = Len(records) => S[n] = Len(whashed) /\ Len(whashed) \in Nat
      BY Place
    <2>3. ASSUME n # Len(records) PROVE Len(rhashed) + 2 <= Len(whashed)
      <3>1. S[n] \in Nat /\ Len(records[n + 1]) \in Nat /\ S[n] + Len(records[n + 1]) + 5 <= Len(whashed) /\ Len(whashed) \in Nat
        BY <2>3, Place
      <3> QED
        BY <2>1, <3>1
    <2>4. ReadAll(2) => n # Len(records)
      BY <1>1, <2>1, <2>2 DEF ReadAll, Left
    <2> QED
      BY <1>2, <2>3, <2>4
  <1>3. CASE rpc \in {"key", "vlen", "val"}
    <2>1. n # Len(records)
      BY <1>3 DEF At, TypeInv, TypeOK
    <2>2. S[n] \in Nat /\ Len(records[n + 1]) \in Nat /\ S[n] + Len(records[n + 1]) + 5 <= Len(whashed) /\ Len(whashed) \in Nat
      BY <2>1, Place
    <2> DEFINE b == S[n]
               l == Len(records[n + 1])
    <2>3. /\ rpc = "key" => Len(rhashed) = b + 2 /\ len = l
          /\ rpc = "vlen" => Len(rhashed) = b + 2 + l
          /\ rpc = "val" => Len(rhashed) = b + 4 + l
      BY <1>3 DEF At
    <2>4. b \in Nat /\ l \in Nat /\ b + l + 5 <= Len(whashed) /\ Len(whashed) \in Nat
      BY <2>2
    <2> HIDE DEF b, l
    <2> QED
      BY <1>3, <2>3, <2>4
  <1> QED
    BY <1>2, <1>3

\* A read of n words keeps the invariant if it is the next token wherever the
\* reader is in step.
LEMMA TokenStep ==
    ASSUME TypeInv, WriterInv, ReaderInv, Reading, wpc = "closed", UNCHANGED <<writerVars, fileVars>>,
           NEW n \in Nat, ReadAll(n), Hash(n), result' # "verified",
           \A S \in [0 .. count -> Nat], m \in 0 .. Len(records) :
               Layout(S) /\ At(S, m) /\ Agrees /\ AtMostCut => Len(rhashed) + n <= Len(whashed),
           \A S \in [0 .. count -> Nat], m \in 0 .. Len(records) :
               Layout(S) /\ At(S, m) /\ Holds(m) /\ Agrees' => InStep(S)'
    PROVE  ReaderInv'
  <1>1. UNCHANGED <<records, content, count, whashed, wpc, file>> /\ Stream' = Stream
    BY DEF writerVars, sourceVars, fileVars, Stream
  <1>2. pos' = Len(rhashed') + 1 /\ \A i \in 1 .. Len(rhashed') : rhashed'[i] = file'[i + 1]
    BY <1>1, HashStep
  <1>3. ASSUME Agrees', NEW S \in [0 .. count' -> Nat], Layout(S)' PROVE InStep(S)'
    <2>1. Agrees
      BY <1>1, <1>3, AgreesStep
    <2>2. S \in [0 .. count -> Nat] /\ Layout(S)
      BY <1>1, <1>3, LayoutKept
    <2>3. PICK m \in 0 .. Len(records) : At(S, m) /\ Holds(m)
      BY <2>1, <2>2 DEF ReaderInv, InStep
    <2> QED
      BY <1>3, <2>2, <2>3
  <1>4. ASSUME AtMostCut' PROVE Agrees'
    <2>1. AtMostCut
      BY <1>1, <1>4 DEF AtMostCut
    <2>2. Agrees
      BY <2>1 DEF ReaderInv
    <2>3. PICK S \in [0 .. count -> Nat] : Layout(S)
      BY DEF WriterInv
    <2>4. PICK m \in 0 .. Len(records) : At(S, m)
      BY <2>2, <2>3 DEF ReaderInv, InStep
    <2>5. Len(rhashed) + n <= Len(whashed)
      BY <2>1, <2>2, <2>3, <2>4
    <2> QED
      BY <1>1, <2>1, <2>2, <2>5, AgreesStep
  <1> QED
    BY <1>2, <1>3, <1>4 DEF ReaderInv

\* A step that reads nothing and stays, if it has not failed, at a record.
LEMMA BreakStep ==
    ASSUME TypeInv, ReaderInv, Reading, wpc = "closed", UNCHANGED <<writerVars, fileVars, pos, rhashed>>,
           result' = "verified" => rhashed = whashed,
           \A S \in [0 .. count -> Nat], m \in 0 .. Len(records) :
               Layout(S) /\ At(S, m) /\ Holds(m) => At(S, m)' /\ Holds(m)'
    PROVE  ReaderInv'
  <1>1. UNCHANGED <<records, content, count, whashed, wpc, file, pos, rhashed>> /\ Stream' = Stream
    BY DEF writerVars, sourceVars, fileVars, Stream
  <1>2. Agrees' <=> Agrees
    BY <1>1 DEF Agrees
  <1>3. AtMostCut' <=> AtMostCut
    BY <1>1 DEF AtMostCut
  <1>4. ASSUME Agrees', NEW S \in [0 .. count' -> Nat], Layout(S)' PROVE InStep(S)'
    <2>1. S \in [0 .. count -> Nat] /\ Layout(S)
      BY <1>1, <1>4, LayoutKept
    <2>2. PICK m \in 0 .. Len(records) : At(S, m) /\ Holds(m)
      BY <1>2, <1>4, <2>1 DEF ReaderInv, InStep
    <2>3. At(S, m)' /\ Holds(m)' /\ m \in 0 .. Len(records')
      BY <1>1, <2>1, <2>2
    <2> QED
      BY <2>3 DEF InStep
  <1>5. Reading => pos = Len(rhashed) + 1 /\ \A i \in 1 .. Len(rhashed) : rhashed[i] = file[i + 1]
    BY DEF ReaderInv
  <1>6. AtMostCut => Agrees
    BY DEF ReaderInv
  <1> QED
    BY <1>1, <1>2, <1>3, <1>4, <1>5, <1>6 DEF ReaderInv

\* After the header the reader is in step with no record.
LEMMA ReadHeaderInv ==
    ASSUME TypeInv, ReadHeader
    PROVE  ReaderInv'
  <1>1. /\ rpc = "header" /\ rpc' = "klen" /\ pos' = 1 /\ UNCHANGED <<len, key, rhashed, batch, k, newdb, result>>
        /\ UNCHANGED <<records, content, count, whashed, wpc, file>>
    BY DEF ReadHeader, writerVars, sourceVars, fileVars
  <1>2. /\ rhashed = <<>> /\ newdb = Nothing /\ batch = Nothing /\ result = "none" /\ wpc = "closed"
        /\ Len(whashed) \in Nat /\ Len(records) \in Nat /\ count = Len(records)
    BY <1>1 DEF TypeInv, TypeOK, Phases
  <1>3. Len(rhashed') = 0 /\ 1 .. Len(rhashed') = {} /\ Agrees'
    BY <1>1, <1>2 DEF Agrees
  <1>4. ASSUME NEW S \in [0 .. count' -> Nat], Layout(S)' PROVE InStep(S)'
    <2>1. S[0] = 0
      BY <1>4 DEF Layout, Ends
    <2>2. At(S, 0)'
      BY <1>1, <1>2, <1>3, <2>1 DEF At
    <2>3. Holds(0)'
      BY <1>1, <1>2, NothingType DEF Holds
    <2>4. 0 \in 0 .. Len(records')
      BY <1>1, <1>2
    <2> QED
      BY <2>2, <2>3, <2>4 DEF InStep
  <1> QED
    BY <1>1, <1>2, <1>3, <1>4 DEF ReaderInv

\* In step, a key length is that of the next record.
LEMMA ReadKeyLenInv ==
    ASSUME TypeInv, WriterInv, ReaderInv, Reading, wpc = "closed", ReadKeyLen
    PROVE  ReaderInv'
  <1>1. /\ rpc = "klen" /\ rpc' = "key" /\ ReadAll(2) /\ Hash(2) /\ len' \in Lengths(Take(2))
        /\ UNCHANGED <<key, batch, k, newdb, result>> /\ UNCHANGED <<writerVars, fileVars>>
    BY DEF ReadKeyLen
  <1>2. UNCHANGED <<records, content, count, whashed, file>> /\ result = "none"
    BY <1>1 DEF writerVars, sourceVars, fileVars, TypeInv, Phases
  <1>3. ASSUME NEW S \in [0 .. count -> Nat], NEW m \in 0 .. Len(records), Layout(S), At(S, m), Agrees, AtMostCut
        PROVE  Len(rhashed) + 2 <= Len(whashed)
    BY <1>1, <1>3, NextToken
  <1>4. ASSUME NEW S \in [0 .. count -> Nat], NEW m \in 0 .. Len(records), Layout(S), At(S, m), Holds(m), Agrees'
        PROVE  InStep(S)'
    <2>1. Len(rhashed) = S[m]
      BY <1>1, <1>4 DEF At
    <2>2. Len(rhashed) + 2 <= Len(whashed) /\ \A i \in 1 .. 2 : Take(2)[i] = whashed[Len(rhashed) + i]
      BY <1>1, <1>2, <1>4, AgreesStep
    <2>3. m # Len(records) /\ m < Len(records)
      <3>1. S[m] \in Nat /\ Len(whashed) \in Nat /\ (m = Len(records) => S[m] = Len(whashed)) /\ Len(records) \in Nat
        <4>1. Len(records) \in Nat
          BY DEF TypeInv, TypeOK
        <4> QED
          BY <1>4, <4>1, Place
      <3> QED
        BY <2>1, <2>2, <3>1
    <2>4. KeyLenAt(whashed, S[m], records[m + 1]) /\ Len(records[m + 1]) \in Nat
      BY <1>4, <2>3, Place
    <2>5. Take(2)[1] = Num(Len(records[m + 1])) /\ Take(2)[2] = Num(0)
      BY <2>1, <2>2, <2>4 DEF KeyLenAt
    <2>6. len' = Len(records[m + 1])
      <3>1. Lengths(Take(2)) = {Len(records[m + 1])}
        BY <2>5 DEF Lengths, Num
      <3> QED
        BY <1>1, <3>1
    <2>7. Len(rhashed') = S[m] + 2
      BY <1>1, <2>1, HashStep
    <2>8. At(S, m)'
      BY <1>1, <1>2, <2>3, <2>6, <2>7 DEF At
    <2>9. Holds(m)'
      BY <1>1, <1>2, <1>4 DEF Holds
    <2> QED
      BY <1>2, <2>8, <2>9 DEF InStep
  <1> QED
    BY <1>1, <1>2, <1>3, <1>4, TokenStep

\* In step, the key is that of the next record.
LEMMA ReadKeyInv ==
    ASSUME TypeInv, WriterInv, ReaderInv, Reading, wpc = "closed", ReadKey
    PROVE  ReaderInv'
  <1>1. /\ rpc = "key" /\ rpc' = "vlen" /\ ReadAll(len) /\ Hash(len) /\ key' = Take(len)
        /\ UNCHANGED <<len, batch, k, newdb, result>> /\ UNCHANGED <<writerVars, fileVars>>
    BY DEF ReadKey
  <1>2. UNCHANGED <<records, content, count, whashed, file>> /\ result = "none" /\ len \in Nat
    BY <1>1 DEF writerVars, sourceVars, fileVars, TypeInv, TypeOK, Phases
  <1>3. ASSUME NEW S \in [0 .. count -> Nat], NEW m \in 0 .. Len(records), Layout(S), At(S, m), Agrees, AtMostCut
        PROVE  Len(rhashed) + len <= Len(whashed)
    BY <1>1, <1>3, NextToken
  <1>4. ASSUME NEW S \in [0 .. count -> Nat], NEW m \in 0 .. Len(records), Layout(S), At(S, m), Holds(m), Agrees'
        PROVE  InStep(S)'
    <2>1. Len(rhashed) = S[m] + 2 /\ len = Len(records[m + 1]) /\ m < Len(records)
      BY <1>1, <1>4 DEF At
    <2>2. \A i \in 1 .. len : Take(len)[i] = whashed[Len(rhashed) + i]
      BY <1>1, <1>2, <1>4, AgreesStep
    <2>3. KeyAt(whashed, S[m], records[m + 1]) /\ records[m + 1] \in Seq(DataWords) /\ S[m] \in Nat
      <3>1. m # Len(records)
        BY <2>1
      <3> QED
        BY <1>4, <3>1, Place
    <2>4. \A i \in 1 .. len : Take(len)[i] = records[m + 1][i]
      BY <2>1, <2>2, <2>3 DEF KeyAt
    <2>5. Take(len) = records[m + 1]
      <3>1. Take(len) \in Seq(DataWords \cup {Checksum(whashed)}) /\ Len(Take(len)) = len
        BY <1>1, <1>2, TakeType
      <3>2. records[m + 1] \in Seq(DataWords \cup {Checksum(whashed)})
        BY <2>3
      <3> QED
        BY <2>1, <2>4, <3>1, <3>2, SeqEqual
    <2>6. Len(rhashed') = S[m] + 2 + Len(records[m + 1])
      BY <1>1, <1>2, <2>1, HashStep
    <2>7. At(S, m)'
      BY <1>1, <1>2, <2>1, <2>5, <2>6 DEF At
    <2>8. Holds(m)'
      BY <1>1, <1>2, <1>4 DEF Holds
    <2> QED
      BY <1>2, <2>7, <2>8 DEF InStep
  <1> QED
    BY <1>1, <1>2, <1>3, <1>4, TokenStep

\* In step, the length of a value is one word.
LEMMA ReadValLenInv ==
    ASSUME TypeInv, WriterInv, ReaderInv, Reading, wpc = "closed", ReadValLen
    PROVE  ReaderInv'
  <1>1. /\ rpc = "vlen" /\ rpc' = "val" /\ ReadAll(2) /\ Hash(2) /\ len' \in Lengths(Take(2))
        /\ UNCHANGED <<key, batch, k, newdb, result>> /\ UNCHANGED <<writerVars, fileVars>>
    BY DEF ReadValLen
  <1>2. UNCHANGED <<records, content, count, whashed, file>> /\ result = "none"
    BY <1>1 DEF writerVars, sourceVars, fileVars, TypeInv, Phases
  <1>3. ASSUME NEW S \in [0 .. count -> Nat], NEW m \in 0 .. Len(records), Layout(S), At(S, m), Agrees, AtMostCut
        PROVE  Len(rhashed) + 2 <= Len(whashed)
    BY <1>1, <1>3, NextToken
  <1>4. ASSUME NEW S \in [0 .. count -> Nat], NEW m \in 0 .. Len(records), Layout(S), At(S, m), Holds(m), Agrees'
        PROVE  InStep(S)'
    <2>1. Len(rhashed) = S[m] + 2 + Len(records[m + 1]) /\ key = records[m + 1] /\ m < Len(records)
      BY <1>1, <1>4 DEF At
    <2>2. \A i \in 1 .. 2 : Take(2)[i] = whashed[Len(rhashed) + i]
      BY <1>1, <1>2, <1>4, AgreesStep
    <2>3. ValLenAt(whashed, S[m], records[m + 1]) /\ Len(records[m + 1]) \in Nat /\ S[m] \in Nat
      <3>1. m # Len(records)
        BY <2>1
      <3> QED
        BY <1>4, <3>1, Place
    <2>4. Take(2)[1] = Num(1) /\ Take(2)[2] = Num(0)
      <3>1. Len(rhashed) + 1 = S[m] + Len(records[m + 1]) + 3 /\ Len(rhashed) + 2 = S[m] + Len(records[m + 1]) + 4
        <4> DEFINE b == S[m]
                   l == Len(records[m + 1])
        <4>1. b \in Nat /\ l \in Nat /\ Len(rhashed) = b + 2 + l
          BY <2>1, <2>3
        <4> HIDE DEF b, l
        <4>2. Len(rhashed) + 1 = b + l + 3 /\ Len(rhashed) + 2 = b + l + 4
          BY <4>1
        <4> QED
          BY <4>2 DEF b, l
      <3> QED
        BY <2>2, <2>3, <3>1 DEF ValLenAt
    <2>5. len' = 1
      BY <1>1, <2>4 DEF Lengths, Num
    <2>6. Len(rhashed') = S[m] + 4 + Len(records[m + 1])
      <3> DEFINE b == S[m]
                 l == Len(records[m + 1])
      <3>1. b \in Nat /\ l \in Nat /\ Len(rhashed') = (b + 2 + l) + 2
        BY <1>1, <2>1, <2>3, HashStep
      <3> HIDE DEF b, l
      <3>2. Len(rhashed') = b + 4 + l
        BY <3>1
      <3> QED
        BY <3>2 DEF b, l
    <2>7. At(S, m)'
      BY <1>1, <1>2, <2>1, <2>5, <2>6 DEF At
    <2>8. Holds(m)'
      BY <1>1, <1>2, <1>4 DEF Holds
    <2> QED
      BY <1>2, <2>7, <2>8 DEF InStep
  <1> QED
    BY <1>1, <1>2, <1>3, <1>4, TokenStep

\* What a put and a commit leave in the batch and in the new database.
LEMMA PutHolds ==
    ASSUME TypeInv, ReadVal, NEW m \in 0 .. Len(records), m + 1 \in 0 .. Len(records), Holds(m),
           key = records[m + 1], Take(1)[1][2] = content[records[m + 1]]
    PROVE  Holds(m + 1)'
  <1>1. /\ rpc = "val" /\ rpc' = "klen" /\ UNCHANGED <<records, content>>
        /\ ReadAll(len) /\ GzipOK
        /\ IF k + 1 >= BatchSize THEN newdb' = Over(newdb, Put) /\ batch' = Nothing
                                 ELSE batch' = Put /\ newdb' = newdb
    BY DEF ReadVal, writerVars, sourceVars
  <1>2. /\ batch \in [DOMAIN batch -> Values] /\ newdb \in [DOMAIN newdb -> Values] /\ Len(records) \in Nat
        /\ Take(1)[1][2] \in Values
    <2>1. Take(1)[1][2] \in Values
      BY <1>1, GzipType
    <2> QED
      BY <2>1 DEF TypeInv, TypeOK
  <1>3. /\ DOMAIN newdb \cup DOMAIN batch = {records[i] : i \in 1 .. m}
        /\ \A x \in DOMAIN newdb : newdb[x] = content[x]
        /\ \A x \in DOMAIN batch : batch[x] = content[x]
    BY DEF Holds
  <1> DEFINE p == [x \in {key} |-> Take(1)[1][2]]
  <1>4. p \in [DOMAIN p -> Values] /\ DOMAIN p = {key} /\ p[key] = content[key] /\ Put = Over(batch, p)
    BY <1>2 DEF Put
  <1> HIDE DEF p
  <1>5. /\ DOMAIN Put = DOMAIN batch \cup {key} /\ Put \in [DOMAIN Put -> Values]
        /\ \A x \in DOMAIN Put : Put[x] = content[x]
    <2>1. DOMAIN Put = DOMAIN batch \cup {key} /\ Put \in [DOMAIN Put -> Values]
      <3>1. batch \in [DOMAIN batch -> Values] /\ p \in [DOMAIN p -> Values]
        BY <1>2, <1>4
      <3>2. DOMAIN Over(batch, p) = DOMAIN batch \cup DOMAIN p /\ Over(batch, p) \in [DOMAIN Over(batch, p) -> Values]
        BY <3>1, OverType
      <3> QED
        BY <1>4, <3>2, Zenon
    <2>2. \A x \in DOMAIN p : p[x] = content[x]
      BY <1>4
    <2> QED
      BY <1>3, <1>4, <2>1, <2>2, OverContent
  <1>6. /\ DOMAIN Over(newdb, Put) = DOMAIN newdb \cup DOMAIN Put
        /\ \A x \in DOMAIN Over(newdb, Put) : Over(newdb, Put)[x] = content[x]
    <2>1. DOMAIN Over(newdb, Put) = DOMAIN newdb \cup DOMAIN Put
      BY <1>2, <1>5, OverType
    <2> QED
      BY <1>3, <1>5, <2>1, OverContent
  <1>7. {records[i] : i \in 1 .. m + 1} = {records[i] : i \in 1 .. m} \cup {key}
    BY <1>2
  <1>8. DOMAIN newdb' \cup DOMAIN batch' = {records[i] : i \in 1 .. m + 1}
    BY <1>1, <1>3, <1>5, <1>6, <1>7, NothingType
  <1>9. (\A x \in DOMAIN newdb' : newdb'[x] = content[x]) /\ (\A x \in DOMAIN batch' : batch'[x] = content[x])
    BY <1>1, <1>3, <1>5, <1>6, NothingType
  <1> QED
    BY <1>1, <1>8, <1>9 DEF Holds

\* In step, the value is that of the key, and one more record is held.
LEMMA ReadValInv ==
    ASSUME TypeInv, WriterInv, ReaderInv, Reading, wpc = "closed", ReadVal
    PROVE  ReaderInv'
  <1>1. /\ rpc = "val" /\ rpc' = "klen" /\ ReadAll(len) /\ GzipOK /\ Hash(1)
        /\ UNCHANGED result /\ UNCHANGED <<writerVars, fileVars>>
    BY DEF ReadVal
  <1>2. UNCHANGED <<records, content, count, whashed, file>> /\ result = "none" /\ ReadAll(1)
    BY <1>1, GzipType DEF writerVars, sourceVars, fileVars, TypeInv, Phases
  <1>3. ASSUME NEW S \in [0 .. count -> Nat], NEW m \in 0 .. Len(records), Layout(S), At(S, m), Agrees, AtMostCut
        PROVE  Len(rhashed) + 1 <= Len(whashed)
    BY <1>1, <1>3, NextToken
  <1>4. ASSUME NEW S \in [0 .. count -> Nat], NEW m \in 0 .. Len(records), Layout(S), At(S, m), Holds(m), Agrees'
        PROVE  InStep(S)'
    <2>1. Len(rhashed) = S[m] + 4 + Len(records[m + 1]) /\ key = records[m + 1] /\ m < Len(records)
      BY <1>1, <1>4 DEF At
    <2>2. Take(1)[1] = whashed[Len(rhashed) + 1]
      BY <1>1, <1>2, <1>4, AgreesStep
    <2>3. /\ ValAt(whashed, S[m], records[m + 1]) /\ Len(records[m + 1]) \in Nat /\ S[m] \in Nat
          /\ m + 1 \in 0 .. Len(records) /\ S[m + 1] = S[m] + Len(records[m + 1]) + 5
      <3>1. m # Len(records)
        BY <2>1
      <3> QED
        BY <1>4, <3>1, Place
    <2> DEFINE b == S[m]
               l == Len(records[m + 1])
    <2>4. b \in Nat /\ l \in Nat /\ Len(rhashed) = b + 4 + l /\ S[m + 1] = b + l + 5
          /\ whashed[b + l + 5] = Gzip(content[records[m + 1]])
      BY <2>1, <2>3 DEF ValAt
    <2>5. Len(rhashed') = Len(rhashed) + 1
      BY <1>1, <1>2, HashStep
    <2> HIDE DEF b, l
    <2>6. Len(rhashed) + 1 = b + l + 5
      BY <2>4
    <2>7. Take(1)[1][2] = content[records[m + 1]]
      BY <2>2, <2>4, <2>6 DEF Gzip
    <2>8. At(S, m + 1)'
      BY <1>1, <1>2, <2>4, <2>5, <2>6 DEF At
    <2>9. Holds(m + 1)'
      BY <1>4, <2>1, <2>3, <2>7, PutHolds
    <2> QED
      BY <1>2, <2>3, <2>8, <2>9 DEF InStep
  <1> QED
    BY <1>1, <1>2, <1>3, <1>4, TokenStep

\* A checksum that matches means that all that was hashed is equal.
LEMMA ChecksumReadInv ==
    ASSUME TypeInv, ReaderInv, Reading, wpc = "closed", ChecksumRead
    PROVE  ReaderInv'
  <1>1. /\ rpc = "klen" /\ rpc' = "commit" /\ result' = "verified" /\ ChecksumOK
        /\ UNCHANGED <<pos, len, key, rhashed, batch, k, newdb>> /\ UNCHANGED <<writerVars, fileVars>>
    BY DEF ChecksumRead, Break
  <1>2. rhashed = whashed
    <2>1. Left = 1 /\ Take(1) = <<Checksum(rhashed)>>
      BY <1>1 DEF ChecksumOK, ChecksumLeft
    <2>2. ReadAll(1)
      BY <2>1 DEF ReadAll
    <2>3. Take(1)[1] \in DataWords \cup {Checksum(whashed)} /\ Take(1)[1] = Checksum(rhashed)
      BY <2>1, <2>2, TakeType
    <2>4. Checksum(rhashed) \notin DataWords
      BY DEF Checksum, DataWords
    <2>5. Checksum(rhashed) = Checksum(whashed)
      BY <2>3, <2>4
    <2> QED
      BY <2>5 DEF Checksum
  <1>3. UNCHANGED <<records, content>>
    BY <1>1 DEF writerVars, sourceVars
  <1>4. ASSUME NEW S \in [0 .. count -> Nat], NEW m \in 0 .. Len(records), At(S, m), Holds(m)
        PROVE  At(S, m)' /\ Holds(m)'
    <2>1. At(S, m)'
      BY <1>1, <1>3, <1>4 DEF At
    <2>2. Holds(m)'
      BY <1>1, <1>3, <1>4 DEF Holds
    <2> QED
      BY <2>1, <2>2
  <1> QED
    BY <1>1, <1>2, <1>4, BreakStep

\* The loop ends without a checksum and keeps what it holds.
LEMMA UnverifiedInv ==
    ASSUME TypeInv, ReaderInv, Reading, rpc \in {"klen", "key", "vlen", "val"}, wpc = "closed", Break(FALSE)
    PROVE  ReaderInv'
  <1>1. /\ rpc' = "commit" /\ result' = "unverified" /\ UNCHANGED <<writerVars, fileVars>>
        /\ UNCHANGED <<pos, len, key, rhashed, batch, k, newdb>>
    BY DEF Break
  <1>2. UNCHANGED <<records, content>>
    BY <1>1 DEF writerVars, sourceVars
  <1>3. ASSUME NEW S \in [0 .. count -> Nat], NEW m \in 0 .. Len(records), At(S, m), Holds(m)
        PROVE  At(S, m)' /\ Holds(m)'
    <2>1. At(S, m)'
      BY <1>1 DEF At
    <2>2. Holds(m)'
      BY <1>1, <1>2, <1>3 DEF Holds
    <2> QED
      BY <2>1, <2>2
  <1> QED
    BY <1>1, <1>3, BreakStep

\* The last commit moves the batch into the new database.
LEMMA CommitRestInv ==
    ASSUME TypeInv, ReaderInv, Reading, wpc = "closed", CommitRest
    PROVE  ReaderInv'
  <1>1. /\ rpc = "commit" /\ rpc' = "end" /\ UNCHANGED <<writerVars, fileVars>>
        /\ UNCHANGED <<pos, len, key, rhashed, k, result>>
        /\ newdb' = (IF k > 0 THEN Over(newdb, batch) ELSE newdb) /\ batch' = Nothing
    BY DEF CommitRest
  <1>2. UNCHANGED <<records, content>>
    BY <1>1 DEF writerVars, sourceVars
  <1>3. batch \in [DOMAIN batch -> Values] /\ newdb \in [DOMAIN newdb -> Values] /\ (k > 0 \/ batch = Nothing)
    BY DEF TypeInv, TypeOK, Phases
  <1>4. ASSUME NEW S \in [0 .. count -> Nat], NEW m \in 0 .. Len(records), At(S, m), Holds(m)
        PROVE  At(S, m)' /\ Holds(m)'
    <2>1. At(S, m)'
      BY <1>1, <1>2, <1>4 DEF At
    <2>2. DOMAIN newdb' = DOMAIN newdb \cup DOMAIN batch
      BY <1>1, <1>3, OverType, NothingType
    <2>3. \A x \in DOMAIN newdb' : newdb'[x] = content[x]
      <3>1. (\A x \in DOMAIN newdb : newdb[x] = content[x]) /\ (\A x \in DOMAIN batch : batch[x] = content[x])
        BY <1>4 DEF Holds
      <3>2. \A x \in DOMAIN Over(newdb, batch) : Over(newdb, batch)[x] = content[x]
        BY <3>1, OverContent
      <3> QED
        BY <1>1, <3>1, <3>2
    <2>4. Holds(m)'
      BY <1>1, <1>2, <1>4, <2>2, <2>3, NothingType DEF Holds
    <2> QED
      BY <2>1, <2>4
  <1>5. result' = "verified" => rhashed = whashed
    BY <1>1 DEF ReaderInv
  <1> QED
    BY <1>1, <1>4, <1>5, BreakStep

\* Nothing is read yet.
LEMMA ReaderInvInit == Init => ReaderInv
  BY DEF Init, ReaderInv, Reading, Accepted

\* Every step keeps the reader in step as long as it agrees with the writer.
LEMMA ReaderInvNext == TypeInv /\ WriterInv /\ ReaderInv /\ [Next]_vars => ReaderInv'
  <1> SUFFICES ASSUME TypeInv, WriterInv, ReaderInv, [Next]_vars PROVE ReaderInv'
    OBVIOUS
  <1>1. ~Reading' => ReaderInv'
    BY DEF ReaderInv
  <1>2. CASE WriteStep \/ WriteFailed
    <2>1. wpc # "closed" /\ UNCHANGED readerVars
      BY <1>2 DEF WriteStep, WriteFailed, WriteHeader, WriteKeyLen, WriteKey, WriteValLen, WriteVal, Write, WriteChecksum,
                  CloseSink
    <2>2. rpc' = "idle"
      BY <2>1 DEF TypeInv, Phases, readerVars
    <2> QED
      BY <1>1, <2>2 DEF Reading, Accepted
  <1>3. CASE \/ \E n \in 0 .. Len(file) - 1, part \in BOOLEAN : Cut(n, part)
             \/ \E i \in 1 .. Len(file), w \in Words : Corrupt(i, w)
    <2>1. rpc' = "idle"
      BY <1>3 DEF Cut, Corrupt, readerVars
    <2> QED
      BY <1>1, <2>1 DEF Reading, Accepted
  <1>4. CASE Restore
    BY <1>1, <1>4 DEF Restore, Reading, Accepted
  <1>5. CASE ReadStep
    <2>1. CASE ReadHeader
      BY <2>1, ReadHeaderInv
    <2>2. CASE Reject \/ ValTooLong
      BY <1>1, <2>2 DEF Reject, ValTooLong, Reading, Accepted
    <2>3. ASSUME rpc \in {"klen", "key", "vlen", "val", "commit"} PROVE Reading /\ wpc = "closed"
      BY <2>3 DEF Reading, TypeInv, Phases
    <2>4. CASE ReadKeyLen
      <3>1. Reading /\ wpc = "closed"
        BY <2>3, <2>4 DEF ReadKeyLen
      <3> QED
        BY <2>4, <3>1, ReadKeyLenInv
    <2>5. CASE ReadKey
      <3>1. Reading /\ wpc = "closed"
        BY <2>3, <2>5 DEF ReadKey
      <3> QED
        BY <2>5, <3>1, ReadKeyInv
    <2>6. CASE ReadValLen
      <3>1. Reading /\ wpc = "closed"
        BY <2>3, <2>6 DEF ReadValLen
      <3> QED
        BY <2>6, <3>1, ReadValLenInv
    <2>7. CASE ReadVal
      <3>1. Reading /\ wpc = "closed"
        BY <2>3, <2>7 DEF ReadVal
      <3> QED
        BY <2>7, <3>1, ReadValInv
    <2>8. CASE ChecksumRead
      <3>1. Reading /\ wpc = "closed"
        BY <2>3, <2>8 DEF ChecksumRead
      <3> QED
        BY <2>8, <3>1, ChecksumReadInv
    <2>9. CASE ChecksumMissing \/ RecordEnds
      <3>1. rpc \in {"klen", "key", "vlen", "val"} /\ Break(FALSE)
        BY <2>9 DEF ChecksumMissing, RecordEnds
      <3>2. Reading /\ wpc = "closed"
        BY <2>3, <3>1
      <3> QED
        BY <3>1, <3>2, UnverifiedInv
    <2>10. CASE CommitRest
      <3>1. Reading /\ wpc = "closed"
        BY <2>3, <2>10 DEF CommitRest
      <3> QED
        BY <2>10, <3>1, CommitRestInv
    <2> QED
      BY <1>5, <2>1, <2>2, <2>4, <2>5, <2>6, <2>7, <2>8, <2>9, <2>10
      DEF ReadStep, HeaderRejected, KeyTooLong, ChecksumRejected, RecordCut, ValRejected
  <1>6. CASE UNCHANGED vars
    <2>1. UNCHANGED <<records, content, count, whashed, wpc, file, rpc, pos, len, key, rhashed, batch, newdb, result>>
      BY <1>6 DEF vars, writerVars, sourceVars, fileVars, readerVars
    <2>2. /\ Reading' = Reading /\ Agrees' = Agrees /\ AtMostCut' = AtMostCut
          /\ \A S : (Layout(S)' <=> Layout(S)) /\ (InStep(S)' <=> InStep(S))
      <3>1. Reading' = Reading /\ Agrees' = Agrees /\ AtMostCut' = AtMostCut
        BY <2>1 DEF Reading, Accepted, Agrees, AtMostCut, Stream
      <3>2. \A S : Layout(S)' <=> Layout(S)
        BY <2>1, LayoutKept
      <3>3. \A S : InStep(S)' <=> InStep(S)
        BY <2>1 DEF InStep, At, Holds
      <3> QED
        BY <3>1, <3>2, <3>3
    <2> QED
      BY <2>1, <2>2 DEF ReaderInv
  <1> QED
    BY <1>2, <1>3, <1>4, <1>5, <1>6 DEF Next

\* The reader is in step with the writer as long as it reads what was written.
LEMMA ReaderInvCorrect == Spec => []ReaderInv
  BY TypeInvCorrect, WriterInvCorrect, ReaderInvInit, ReaderInvNext, PTL DEF Spec

-----------------------------------------------------------------------------
(* What a restore yields *)

\* In step, the reader holds an initial part of the content.
LEMMA AcceptedContent ==
    ASSUME TypeInv, WriterInv, ReaderInv, Accepted, Agrees
    PROVE  /\ \E n \in 0 .. Len(records) : newdb = [x \in {records[i] : i \in 1 .. n} |-> content[x]]
           /\ result = "verified" => newdb = content
  <1>1. Reading /\ wpc = "closed" /\ rpc = "end"
    BY DEF Reading, Accepted, TypeInv, Phases
  <1>2. PICK S \in [0 .. count -> Nat] : Layout(S)
    BY <1>1 DEF WriterInv
  <1>3. PICK n \in 0 .. Len(records) : At(S, n) /\ Holds(n)
    BY <1>1, <1>2 DEF ReaderInv, InStep
  <1>4. newdb \in [DOMAIN newdb -> Values] /\ content \in [Range(records) -> Values] /\ records \in Seq(Seq(Words))
    BY DEF TypeInv, TypeOK
  <1>5. DOMAIN newdb = {records[i] : i \in 1 .. n} /\ \A x \in DOMAIN newdb : newdb[x] = content[x]
    BY <1>1, <1>3, NothingType DEF Holds
  <1>6. newdb = [x \in {records[i] : i \in 1 .. n} |-> content[x]]
    BY <1>4, <1>5
  <1>7. ASSUME result = "verified" PROVE newdb = content
    <2>1. Len(rhashed) = S[n] /\ rhashed = whashed
      BY <1>1, <1>3, <1>7 DEF At, ReaderInv
    <2>2. n = Len(records)
      BY <1>1, <1>2, <2>1, Place
    <2>3. {records[i] : i \in 1 .. n} = Range(records)
      BY <1>4, <2>2 DEF Range
    <2>4. newdb = [x \in Range(records) |-> content[x]]
      BY <1>6, <2>3
    <2>5. content = [x \in Range(records) |-> content[x]]
      BY <1>4
    <2> QED
      BY <2>4, <2>5
  <1> QED
    BY <1>6, <1>7

\* A stream whose checksum recoverSnapShot has verified restores the content
\* that saveSnapShot wrote, however it was cut or damaged, and even if the
\* reader lost its place in it.
THEOREM Verified == Spec => []VerifiedIsComplete
  <1>1. TypeInv /\ WriterInv /\ ReaderInv => VerifiedIsComplete
    <2> SUFFICES ASSUME TypeInv, WriterInv, ReaderInv, rpc = "end", result = "verified" PROVE newdb = content
      BY DEF VerifiedIsComplete
    <2>1. Accepted /\ Reading
      BY DEF Accepted, Reading
    <2>2. rhashed = whashed
      BY <2>1 DEF ReaderInv
    <2>3. Agrees
      BY <2>2 DEF Agrees, TypeInv, TypeOK
    <2> QED
      BY <2>1, <2>3, AcceptedContent
  <1> QED
    BY <1>1, TypeInvCorrect, WriterInvCorrect, ReaderInvCorrect, PTL

\* What recoverSnapShot accepts from a stream that was at most cut is the
\* content of an initial part of the records.
THEOREM CutPrefix == Spec => []CutIsPrefix
  <1>1. TypeInv /\ WriterInv /\ ReaderInv => CutIsPrefix
    <2> SUFFICES ASSUME TypeInv, WriterInv, ReaderInv, Accepted, AtMostCut
                 PROVE  \E n \in 0 .. Len(records) : newdb = [x \in {records[i] : i \in 1 .. n} |-> content[x]]
      BY DEF CutIsPrefix
    <2>1. Agrees
      BY DEF ReaderInv, Reading
    <2> QED
      BY <2>1, AcceptedContent
  <1> QED
    BY <1>1, TypeInvCorrect, WriterInvCorrect, ReaderInvCorrect, PTL

\* From the whole stream every read succeeds, and finds what was written.
LEMMA IntactReads ==
    ASSUME TypeInv, WriterInv, ReaderInv, Reading, wpc = "closed", intact,
           NEW S \in [0 .. count -> Nat], Layout(S), NEW n \in 0 .. Len(records), At(S, n)
    PROVE  /\ rpc = "klen" /\ n # Len(records) =>
                 ReadAll(2) /\ Take(2)[1] = Num(Len(records[n + 1])) /\ Take(2)[2] = Num(0)
           /\ rpc = "klen" /\ n = Len(records) => Left = 1 /\ Take(1) = <<Checksum(rhashed)>>
           /\ rpc = "key" => ReadAll(len)
           /\ rpc = "vlen" => ReadAll(2)
           /\ rpc = "val" => len = 1 /\ ReadAll(1) /\ Take(1)[1][1] = "gzip"
  <1>1. AtMostCut /\ Len(file) = Len(whashed) + 2
    BY IntactFile
  <1>2. Agrees /\ pos = Len(rhashed) + 1 /\ Len(rhashed) \in Nat /\ Len(whashed) \in Nat /\ len \in Nat
    BY <1>1 DEF ReaderInv, TypeInv, TypeOK
  <1>3. ASSUME NEW m \in Nat, Len(rhashed) + m <= Len(whashed)
        PROVE  ReadAll(m) /\ \A i \in 1 .. m : Take(m)[i] = whashed[Len(rhashed) + i]
    <2>1. ReadAll(m)
      BY <1>1, <1>2, <1>3 DEF ReadAll, Left
    <2> QED
      BY <1>1, <1>3, <2>1, CutTake
  <1>4. S[n] \in Nat /\ (n = Len(records) => S[n] = Len(whashed))
    BY Place
  <1>5. CASE n # Len(records)
    <2> DEFINE x == records[n + 1]
    <2>1. /\ Len(x) \in Nat /\ S[n] + Len(x) + 5 <= Len(whashed)
          /\ KeyLenAt(whashed, S[n], x) /\ ValAt(whashed, S[n], x)
      BY <1>5, Place
    <2> HIDE DEF x
    <2> DEFINE b == S[n]
               l == Len(x)
    <2>2. b \in Nat /\ l \in Nat /\ b + l + 5 <= Len(whashed)
      BY <1>4, <2>1
    <2> HIDE DEF b, l
    <2>3. CASE rpc = "klen"
      <3>1. Len(rhashed) = b
        BY <2>3 DEF At, b
      <3>2. ReadAll(2) /\ \A i \in 1 .. 2 : Take(2)[i] = whashed[b + i]
        BY <1>2, <1>3, <2>2, <3>1
      <3>3. Take(2)[1] = Num(Len(x)) /\ Take(2)[2] = Num(0)
        BY <2>1, <3>2 DEF KeyLenAt, b
      <3> QED
        BY <1>5, <2>3, <3>2, <3>3 DEF x
    <2>4. CASE rpc = "key"
      <3>1. Len(rhashed) = b + 2 /\ len = l
        BY <2>4 DEF At, b, l, x
      <3>2. ReadAll(len)
        BY <1>2, <1>3, <2>2, <3>1
      <3> QED
        BY <2>4, <3>2
    <2>5. CASE rpc = "vlen"
      <3>1. Len(rhashed) = b + 2 + l
        BY <2>5 DEF At, b, l, x
      <3>2. ReadAll(2)
        BY <1>2, <1>3, <2>2, <3>1
      <3> QED
        BY <2>5, <3>2
    <2>6. CASE rpc = "val"
      <3>1. Len(rhashed) = b + 4 + l /\ len = 1
        BY <2>6 DEF At, b, l, x
      <3>2. Len(rhashed) + 1 = b + l + 5
        BY <2>2, <3>1
      <3>3. ReadAll(1) /\ Take(1)[1] = whashed[b + l + 5]
        BY <1>2, <1>3, <2>2, <3>2
      <3>4. Take(1)[1][1] = "gzip"
        BY <2>1, <3>3 DEF ValAt, b, l, Gzip
      <3> QED
        BY <2>6, <3>1, <3>3, <3>4
    <2> QED
      BY <1>5, <2>3, <2>4, <2>5, <2>6
  <1>6. CASE n = Len(records)
    <2>1. rpc \notin {"key", "vlen", "val"}
      BY <1>6 DEF At, TypeInv, TypeOK
    <2>2. ASSUME rpc = "klen" PROVE Left = 1 /\ Take(1) = <<Checksum(rhashed)>>
      <3>1. Len(rhashed) = Len(whashed)
        BY <1>4, <1>6, <2>2 DEF At
      <3>2. Left = 1 /\ pos + 1 = Len(file)
        BY <1>1, <1>2, <3>1 DEF Left
      <3>3. rhashed = whashed
        <4>1. rhashed \in Seq(DataWords \cup {Checksum(whashed)}) /\ whashed \in Seq(DataWords \cup {Checksum(whashed)})
          BY DEF TypeInv, TypeOK
        <4>2. \A i \in 1 .. Len(rhashed) : rhashed[i] = whashed[i]
          BY <1>2 DEF Agrees
        <4> QED
          BY <3>1, <4>1, <4>2, SeqEqual
      <3>4. ReadAll(1)
        BY <3>2 DEF ReadAll
      <3>5. Take(1) \in Seq(DataWords \cup {Checksum(whashed)}) /\ Len(Take(1)) = 1 /\ Take(1)[1] = file[Len(file)]
        <4>1. /\ Take(1) \in Seq(DataWords \cup {Checksum(whashed)}) /\ Len(Take(1)) = 1
              /\ \A i \in 1 .. 1 : Take(1)[i] = file[pos + i]
          BY <3>4, TakeType
        <4>2. Take(1)[1] = file[pos + 1]
          BY <4>1
        <4> QED
          BY <3>2, <4>1, <4>2
      <3>6. file[Len(file)] = Checksum(whashed)
        BY <1>1, CutWords
      <3>7. Take(1) = <<Checksum(whashed)>>
        BY <3>5, <3>6
      <3> QED
        BY <3>2, <3>3, <3>7
    <2> QED
      BY <1>6, <2>1, <2>2
  <1> QED
    BY <1>5, <1>6

\* A stream that nothing cut or damaged is never rejected, and never accepted
\* without its checksum.
LEMMA IntactInvNext == TypeInv /\ WriterInv /\ ReaderInv /\ IntactInv /\ [Next]_vars => IntactInv'
  <1> SUFFICES ASSUME TypeInv, WriterInv, ReaderInv, IntactInv, [Next]_vars, intact'
               PROVE  ~odd' /\ (rpc' \in {"commit", "end"} => result' = "verified")
    BY DEF IntactInv
  <1>1. ASSUME ReadStep, rpc' \in {"commit", "end"} PROVE result' = "verified"
    <2>1. UNCHANGED fileVars /\ rpc # "idle"
      BY <1>1 DEF ReadStep, ReadHeader, HeaderRejected, ReadKeyLen, KeyTooLong, ChecksumMissing, ChecksumRead,
             ChecksumRejected, ReadKey, ReadValLen, RecordEnds, RecordCut, ValTooLong, ValRejected, ReadVal,
             CommitRest, Reject, Break
    <2>2. intact /\ wpc = "closed"
      BY <2>1 DEF fileVars, TypeInv, Phases
    <2>3. AtMostCut /\ Len(file) = Len(whashed) + 2 /\ Len(whashed) \in Nat
      BY <2>2, IntactFile DEF TypeInv, TypeOK
    <2>4. ~HeaderRejected
      <3>1. ASSUME rpc = "header" PROVE HeaderOK
        <4>1. pos = 0
          BY <3>1 DEF TypeInv, Phases
        <4>2. file[1] = Header("index")
          BY <2>3, CutWords
        <4> QED
          BY <2>3, <4>1, <4>2 DEF HeaderOK, ReadAll, Left, Header
      <3> QED
        BY <3>1 DEF HeaderRejected
    <2>5. CASE rpc \in {"klen", "key", "vlen", "val"}
      <3>1. Reading
        BY <2>5 DEF Reading
      <3>2. Agrees
        BY <2>3, <3>1 DEF ReaderInv
      <3>3. PICK S \in [0 .. count -> Nat] : Layout(S)
        BY <2>2 DEF WriterInv
      <3>4. PICK n \in 0 .. Len(records) : At(S, n)
        BY <3>1, <3>2, <3>3 DEF ReaderInv, InStep
      <3>5. /\ rpc = "klen" /\ n # Len(records) =>
                  ReadAll(2) /\ Take(2)[1] = Num(Len(records[n + 1])) /\ Take(2)[2] = Num(0)
            /\ rpc = "klen" /\ n = Len(records) => Left = 1 /\ Take(1) = <<Checksum(rhashed)>>
            /\ rpc = "key" => ReadAll(len)
            /\ rpc = "vlen" => ReadAll(2)
            /\ rpc = "val" => len = 1 /\ ReadAll(1) /\ Take(1)[1][1] = "gzip"
        BY <2>2, <3>1, <3>3, <3>4, IntactReads
      <3>6. CASE rpc \in {"key", "vlen", "val"}
        <4>1. ~RecordEnds /\ ~RecordCut
          <5>1. \A m : ReadAll(m) => ~ReadPart(m)
            BY DEF ReadPart
          <5>2. \A m \in Nat : ReadAll(m) => ~ReadEOF(m)
            BY DEF ReadAll, ReadEOF
          <5>3. len \in Nat
            BY DEF TypeInv, TypeOK
          <5> QED
            BY <3>5, <3>6, <5>1, <5>2, <5>3 DEF RecordEnds, RecordCut
        <4>2. ~ValTooLong /\ ~ValRejected
          BY <3>5, StreamAssumption DEF ValTooLong, ValRejected, TooLong, GzipOK
        <4>3. rpc' \notin {"commit", "end"}
          BY <1>1, <2>4, <3>6, <4>1, <4>2 DEF ReadStep, ReadHeader, ReadKeyLen, KeyTooLong, ChecksumMissing,
             ChecksumRead, ChecksumRejected, ReadKey, ReadValLen, ReadVal, CommitRest
        <4> QED
          BY <1>1, <4>3
      <3>7. CASE rpc = "klen" /\ n # Len(records)
        <4>1. Lengths(Take(2)) = {Len(records[n + 1])}
          BY <3>5, <3>7 DEF Lengths, Num
        <4>2. Len(records[n + 1]) \in Nat /\ Len(records[n + 1]) <= MaxLen
          BY <2>2, <3>3, <3>7, Place
        <4>3. ~KeyTooLong
          BY <4>1, <4>2, StreamAssumption DEF KeyTooLong, TooLong
        <4>4. ReadAll(2) /\ ~ReadEOF(2) /\ ~ReadPart(2)
          BY <3>5, <3>7 DEF ReadAll, ReadEOF, ReadPart
        <4>5. ~ChecksumMissing /\ ~ChecksumRead /\ ~ChecksumRejected
          BY <4>4 DEF ChecksumMissing, ChecksumRead, ChecksumOK, ChecksumLeft, ChecksumRejected
        <4>6. rpc' \notin {"commit", "end"}
          BY <1>1, <2>4, <3>7, <4>3, <4>5 DEF ReadStep, ReadHeader, ReadKeyLen, ReadKey, ReadValLen, RecordEnds,
             RecordCut, ValTooLong, ValRejected, ReadVal, CommitRest
        <4> QED
          BY <1>1, <4>6
      <3>8. CASE rpc = "klen" /\ n = Len(records)
        <4>1. Left = 1 /\ ~ReadAll(2) /\ ~ReadEOF(2)
          BY <3>5, <3>8 DEF ReadAll, ReadEOF
        <4>2. ~ReadKeyLen /\ ~KeyTooLong /\ ~ChecksumMissing
          BY <4>1 DEF ReadKeyLen, KeyTooLong, ChecksumMissing
        <4>3. ~odd => ~ChecksumRejected
          BY <3>5, <3>8, <4>1 DEF ChecksumRejected, ChecksumOK, ChecksumLeft
        <4>4. ~odd
          BY <2>2 DEF IntactInv
        <4> QED
          BY <1>1, <2>4, <3>8, <4>2, <4>3, <4>4 DEF ReadStep, ReadHeader, ChecksumRead, ReadKey, ReadValLen, RecordEnds,
             RecordCut, ValTooLong, ValRejected, ReadVal, CommitRest, Break
      <3> QED
        BY <2>5, <3>6, <3>7, <3>8
    <2>6. CASE rpc = "commit"
      BY <1>1, <2>2, <2>6 DEF IntactInv, ReadStep, ReadHeader, HeaderRejected, ReadKeyLen, KeyTooLong, ChecksumMissing,
         ChecksumRead, ChecksumRejected, ReadKey, ReadValLen, RecordEnds, RecordCut, ValTooLong, ValRejected, ReadVal,
         CommitRest
    <2>7. CASE rpc = "header"
      BY <1>1, <2>4, <2>7 DEF ReadStep, ReadHeader, ReadKeyLen, KeyTooLong, ChecksumMissing,
         ChecksumRead, ChecksumRejected, ReadKey, ReadValLen, RecordEnds, RecordCut, ValTooLong, ValRejected, ReadVal,
         CommitRest
    <2>8. rpc \in {"header", "klen", "key", "vlen", "val", "commit"}
      BY <1>1 DEF ReadStep, ReadHeader, HeaderRejected, ReadKeyLen, KeyTooLong, ChecksumMissing, ChecksumRead,
             ChecksumRejected, ReadKey, ReadValLen, RecordEnds, RecordCut, ValTooLong, ValRejected, ReadVal, CommitRest
    <2> QED
      BY <2>5, <2>6, <2>7, <2>8
  <1>2. ASSUME ReadStep PROVE ~odd'
    BY <1>2 DEF IntactInv, ReadStep, ReadHeader, HeaderRejected, ReadKeyLen, KeyTooLong, ChecksumMissing, ChecksumRead,
       ChecksumRejected, ReadKey, ReadValLen, RecordEnds, RecordCut, ValTooLong, ValRejected, ReadVal, CommitRest,
       Reject, Break, fileVars
  <1>3. CASE WriteStep \/ WriteFailed \/ Restore
    <2>1. UNCHANGED <<odd, intact>> /\ rpc = "idle" /\ rpc' \in {"idle", "header"}
      BY <1>3 DEF WriteStep, WriteHeader, WriteKeyLen, WriteKey, WriteValLen, WriteVal, Write, WriteChecksum, CloseSink,
         WriteFailed, Restore, readerVars, fileVars, TypeInv, Phases
    <2> QED
      BY <2>1 DEF IntactInv
  <1>4. CASE \E n \in 0 .. Len(file) - 1, part \in BOOLEAN : Cut(n, part)
    BY <1>4 DEF Cut
  <1>5. CASE \E i \in 1 .. Len(file), w \in Words : Corrupt(i, w)
    BY <1>5 DEF Corrupt
  <1>6. CASE UNCHANGED vars
    BY <1>6 DEF IntactInv, vars, fileVars, readerVars
  <1> QED
    BY <1>1, <1>2, <1>3, <1>4, <1>5, <1>6 DEF Next

\* What saveSnapShot wrote and nothing cut or damaged, recoverSnapShot accepts
\* with its checksum verified, and it restores the content that was saved.
THEOREM Restored == Spec => []RoundTrip
  <1>1. Init => IntactInv
    BY DEF Init, IntactInv
  <1>2. Spec => []IntactInv
    BY <1>1, TypeInvCorrect, WriterInvCorrect, ReaderInvCorrect, IntactInvNext, PTL DEF Spec
  <1>3. IntactInv /\ VerifiedIsComplete => RoundTrip
    BY DEF IntactInv, VerifiedIsComplete, RoundTrip
  <1> QED
    BY <1>2, <1>3, Verified, PTL

\* A length that recoverSnapShot would panic on is not one that saveSnapShot
\* wrote.
LEMMA InStepLength ==
    ASSUME TypeInv, WriterInv, ReaderInv, rpc = "val", AtMostCut
    PROVE  len = 1
  <1>1. Reading /\ wpc = "closed"
    BY DEF Reading, TypeInv, Phases
  <1>2. PICK S \in [0 .. count -> Nat] : Layout(S)
    BY <1>1 DEF WriterInv
  <1>3. PICK n \in 0 .. Len(records) : At(S, n)
    BY <1>1, <1>2 DEF ReaderInv, InStep
  <1> QED
    BY <1>3 DEF At

\* recoverSnapShot, which allocates what the length of a value says, does not
\* panic on a stream that was at most cut, wherever that was.
THEOREM CutStreamsDoNotPanic == Spec => []OnlyDamagePanics
  <1>1. Init => OnlyDamagePanics
    BY DEF Init, OnlyDamagePanics
  <1>2. TypeInv /\ WriterInv /\ ReaderInv /\ OnlyDamagePanics /\ [Next]_vars => OnlyDamagePanics'
    <2> SUFFICES ASSUME TypeInv, WriterInv, ReaderInv, OnlyDamagePanics, [Next]_vars, result' = "panic"
                 PROVE  ~AtMostCut'
      BY DEF OnlyDamagePanics
    <2>1. CASE ValTooLong
      <3>1. UNCHANGED <<file, whashed>> /\ rpc = "val" /\ len > MaxLen
        BY <2>1 DEF ValTooLong, TooLong, writerVars, fileVars
      <3>2. len # 1
        BY <3>1, StreamAssumption
      <3>3. ~AtMostCut
        BY <3>1, <3>2, InStepLength
      <3> QED
        BY <3>1, <3>3 DEF AtMostCut, Stream
    <2>2. CASE ReadStep /\ ~ValTooLong
      <3>1. result' = result \/ result' \in {"rejected", "verified", "unverified"}
        BY <2>2 DEF ReadStep, ReadHeader, HeaderRejected, ReadKeyLen, KeyTooLong, ChecksumMissing, ChecksumRead,
           ChecksumRejected, ReadKey, ReadValLen, RecordEnds, RecordCut, ValRejected, ReadVal, CommitRest, Reject, Break
      <3>2. UNCHANGED <<file, whashed>>
        BY <2>2 DEF ReadStep, ReadHeader, HeaderRejected, ReadKeyLen, KeyTooLong, ChecksumMissing, ChecksumRead,
           ChecksumRejected, ReadKey, ReadValLen, RecordEnds, RecordCut, ValRejected, ReadVal, CommitRest, Reject, Break,
           writerVars, fileVars
      <3> QED
        BY <3>1, <3>2 DEF OnlyDamagePanics, AtMostCut, Stream
    <2>3. CASE WriteStep \/ WriteFailed \/ Restore
      <3>1. result' = result /\ rpc = "idle"
        BY <2>3 DEF WriteStep, WriteHeader, WriteKeyLen, WriteKey, WriteValLen, WriteVal, Write, WriteChecksum,
           CloseSink, WriteFailed, Restore, readerVars, TypeInv, Phases
      <3> QED
        BY <3>1 DEF TypeInv, Phases
    <2>4. CASE \E n \in 0 .. Len(file) - 1, part \in BOOLEAN : Cut(n, part)
      BY <2>4 DEF Cut, readerVars, TypeInv, Phases
    <2>5. CASE \E i \in 1 .. Len(file), w \in Words : Corrupt(i, w)
      BY <2>5 DEF Corrupt, readerVars, TypeInv, Phases
    <2>6. CASE UNCHANGED vars
      BY <2>6 DEF OnlyDamagePanics, AtMostCut, Stream, vars, writerVars, fileVars, readerVars
    <2> QED
      BY <2>1, <2>2, <2>3, <2>4, <2>5, <2>6 DEF Next
  <1> QED
    BY <1>1, <1>2, TypeInvCorrect, WriterInvCorrect, ReaderInvCorrect, PTL DEF Spec

=============================================================================
