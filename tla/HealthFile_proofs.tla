-------------------------- MODULE HealthFile_proofs --------------------------
(* The record on the disk for every number of files, records and signals. At   *)
(* whatever step a signal strikes: its types, and the one step that can tear     *)
(* it. When no signal strikes while a record is in its buffer: that it is whole, *)
(* that a stop leaves the record that says so, and that it is an atomic register. *)
EXTENDS HealthFile, SequenceTheorems, TLAPS

Steps == {"open", "dump", "flush", "fsync", "replace"}

Calls == [record : AllRecords, inode : Inodes \cup {NoFile},
          step : Steps, buffer : {"nothing", "part", "whole"}]

\* A call has something to write only once it has opened a file.
Writers == {w \in Calls : w.inode = NoFile => w.step = "open" /\ w.buffer = "nothing"}

-----------------------------------------------------------------------------
(* The stack of calls.                                                       *)

\* What is left when the innermost call returns.
LEMMA FrontOf ==
    ASSUME NEW S, NEW s \in Seq(S), s # <<>>
    PROVE  /\ Front(s) \in Seq(S)
           /\ Len(s) \in Nat \ {0}
           /\ Len(Front(s)) = Len(s) - 1
           /\ \A i \in 1..Len(s) - 1 : Front(s)[i] = s[i]
           /\ Last(s) = s[Len(s)] /\ Last(s) \in S
  <1>1. Len(s) \in Nat \ {0}
    BY EmptySeq
  <1>2. \A i \in 1..Len(s) : s[i] \in S
    BY ElementOfSeq
  <1>3. \A i \in 1..Len(s) - 1 : s[i] \in S
    BY <1>1, <1>2
  <1>4. /\ SubSeq(s, 1, Len(s) - 1) \in Seq(S)
        /\ Len(SubSeq(s, 1, Len(s) - 1)) = IF 1 <= Len(s) - 1 THEN Len(s) - 1 - 1 + 1 ELSE 0
        /\ \A i \in 1..Len(s) - 1 - 1 + 1 : SubSeq(s, 1, Len(s) - 1)[i] = s[1 + i - 1]
    BY <1>1, <1>3, SubSeqProperties
  <1>5. Last(s) = s[Len(s)] /\ Last(s) \in S
    BY <1>1, <1>2 DEF Last
  <1>6. Front(s) = SubSeq(s, 1, Len(s) - 1)
    BY DEF Front
  <1>7. Len(SubSeq(s, 1, Len(s) - 1)) = Len(s) - 1
    <2>1. CASE Len(s) = 1
      BY <1>4, <2>1
    <2>2. CASE Len(s) > 1
      BY <1>1, <1>4, <2>2
    <2> QED
      BY <1>1, <2>1, <2>2
  <1>8. \A i \in 1..Len(s) - 1 : Front(s)[i] = s[i]
    BY <1>1, <1>4, <1>6
  <1> QED
    BY <1>1, <1>4, <1>5, <1>6, <1>7, <1>8

\* A call put on top.
LEMMA Pushed ==
    ASSUME NEW S, NEW s \in Seq(S), NEW e \in S
    PROVE  /\ Append(s, e) \in Seq(S) /\ Append(s, e) # <<>>
           /\ Len(s) \in Nat
           /\ Len(Append(s, e)) = Len(s) + 1
           /\ \A i \in 1..Len(s) : Append(s, e)[i] = s[i]
           /\ Append(s, e)[Len(s) + 1] = e
           /\ Last(Append(s, e)) = e
  BY AppendProperties, LenProperties DEF Last

\* A step of the innermost call.
LEMMA Stepped ==
    ASSUME NEW S, NEW s \in Seq(S), s # <<>>, NEW e \in S
    PROVE  /\ Append(Front(s), e) \in Seq(S) /\ Append(Front(s), e) # <<>>
           /\ Len(Append(Front(s), e)) = Len(s)
           /\ \A i \in 1..Len(s) - 1 : Append(Front(s), e)[i] = s[i]
           /\ Append(Front(s), e)[Len(s)] = e
           /\ Last(Append(Front(s), e)) = e
  <1>1. /\ Front(s) \in Seq(S) /\ Len(Front(s)) = Len(s) - 1 /\ Len(s) \in Nat \ {0}
        /\ \A i \in 1..Len(s) - 1 : Front(s)[i] = s[i]
    BY FrontOf
  <1> QED
    BY <1>1, Pushed

-----------------------------------------------------------------------------
(* Types.                                                                    *)

\* One signal puts at most one call on top of the loop's or main()'s, and only
\* the call at the bottom records anything but "stopped".
StackOK ==
    /\ writers \in Seq(Writers)
    /\ mode \in {"running", "exiting", "failing", "over"}
    /\ signals \in 0..MaxSignals
    /\ Len(writers) <= signals + 1
    /\ \A i \in 1..Len(writers) : i > 1 => writers[i].record = "stopped"
    /\ mode = "over" => writers = <<>>

FilesOK ==
    /\ names \in Names /\ disk \in Names
    /\ data \in [Inodes -> Contents]
    /\ dirty \subseteq Inodes
    /\ opened \in Inodes \cup {NoFile}
    /\ names.json # NoFile => names.json # names.tmp
    /\ disk.json # NoFile => disk.json # disk.tmp

TypeInv == StackOK /\ FilesOK /\ stopDone \in BOOLEAN

LEMMA TypeInvTypes == TypeInv => HealthFileTypeOK
  <1> SUFFICES ASSUME TypeInv PROVE HealthFileTypeOK
    OBVIOUS
  <1>1. Len(writers) \in Nat /\ DOMAIN writers = 1..Len(writers)
    BY LenProperties DEF TypeInv, StackOK
  <1>2. Len(writers) <= MaxSignals + 1
    BY <1>1, HealthFileAssumption DEF TypeInv, StackOK
  <1>3. \A i \in DOMAIN writers : writers[i] \in Writers
    BY <1>1, ElementOfSeq DEF TypeInv, StackOK
  <1> QED
    BY <1>2, <1>3 DEF TypeInv, StackOK, FilesOK, HealthFileTypeOK, Writers, Calls, Steps

LEMMA WriterTyped ==
    ASSUME NEW record \in AllRecords
    PROVE  Writer(record) \in Writers /\ Writer(record).record = record
  BY DEF Writer, Writers, Calls, Steps

LEMMA TopTyped ==
    ASSUME StackOK, writers # <<>>
    PROVE  /\ Top \in Writers
           /\ Top.record \in AllRecords /\ Top.inode \in Inodes \cup {NoFile}
           /\ Len(writers) \in Nat \ {0} /\ Top = writers[Len(writers)]
           /\ Top.record # "stopped" => Len(writers) = 1
  <1>1. Top \in Writers /\ Len(writers) \in Nat \ {0} /\ Top = writers[Len(writers)]
    BY FrontOf DEF StackOK, Top
  <1>2. Len(writers) > 1 => Top.record = "stopped"
    BY <1>1 DEF StackOK
  <1>3. Top.record # "stopped" => Len(writers) = 1
    <2> DEFINE n == Len(writers)
    <2>1. n \in Nat \ {0} /\ (n > 1 => Top.record = "stopped")
      BY <1>1, <1>2
    <2> HIDE DEF n
    <2>2. Top.record # "stopped" => n = 1
      BY <2>1
    <2> QED
      BY <2>2 DEF n
  <1>4. Top.record \in AllRecords /\ Top.inode \in Inodes \cup {NoFile}
    BY <1>1 DEF Writers, Calls
  <1> QED
    BY <1>1, <1>3, <1>4

\* A step of the call on top.
LEMMA StackSteps ==
    ASSUME StackOK, writers # <<>>, NEW w \in Writers, w.record = Top.record,
           SetTop(w), mode' = mode, signals' = signals
    PROVE  StackOK'
  <1>1. /\ writers' \in Seq(Writers) /\ writers' # <<>>
        /\ Len(writers') = Len(writers)
        /\ \A i \in 1..Len(writers) - 1 : writers'[i] = writers[i]
        /\ writers'[Len(writers)] = w
    BY Stepped DEF SetTop, StackOK
  <1>2. Len(writers) \in Nat \ {0} /\ Top = writers[Len(writers)]
    BY TopTyped
  <1>3. \A i \in 1..Len(writers') : i > 1 => writers'[i].record = "stopped"
    <2> SUFFICES ASSUME NEW i \in 1..Len(writers'), i > 1
                 PROVE  writers'[i].record = "stopped"
      OBVIOUS
    <2>1. CASE i = Len(writers)
      BY <1>1, <1>2, <2>1 DEF StackOK
    <2>2. CASE i \in 1..Len(writers) - 1
      BY <1>1, <1>2, <2>2 DEF StackOK
    <2> QED
      BY <1>1, <1>2, <2>1, <2>2
  <1> QED
    BY <1>1, <1>3 DEF StackOK

\* The call on top returns or raises.
LEMMA StackReturns ==
    ASSUME StackOK, writers # <<>>, writers' = Front(writers), signals' = signals,
           mode' \in {"running", "exiting", "failing", "over"},
           mode' = "over" => Len(writers) = 1
    PROVE  StackOK'
  <1>1. /\ writers' \in Seq(Writers) /\ Len(writers) \in Nat \ {0}
        /\ Len(writers') = Len(writers) - 1
        /\ \A i \in 1..Len(writers) - 1 : writers'[i] = writers[i]
    BY FrontOf DEF StackOK
  <1>2. \A i \in 1..Len(writers') : i > 1 => writers'[i].record = "stopped"
    BY <1>1 DEF StackOK
  <1>3. mode' = "over" => writers' = <<>>
    BY <1>1, EmptySeq
  <1>4. Len(writers') <= signals' + 1
    BY <1>1 DEF StackOK
  <1> QED
    BY <1>1, <1>2, <1>3, <1>4 DEF StackOK

\* A signal puts a call on top.
LEMMA StackGrows ==
    ASSUME StackOK, SignalArrives
    PROVE  StackOK'
  <1>1. Writer("stopped") \in Writers /\ Writer("stopped").record = "stopped"
    BY WriterTyped DEF AllRecords
  <1>2. /\ writers' \in Seq(Writers) /\ Len(writers) \in Nat
        /\ Len(writers') = Len(writers) + 1
        /\ \A i \in 1..Len(writers) : writers'[i] = writers[i]
        /\ writers'[Len(writers) + 1] = Writer("stopped")
    BY <1>1, Pushed DEF StackOK, SignalArrives
  <1>3. \A i \in 1..Len(writers') : i > 1 => writers'[i].record = "stopped"
    <2> SUFFICES ASSUME NEW i \in 1..Len(writers'), i > 1
                 PROVE  writers'[i].record = "stopped"
      OBVIOUS
    <2>1. CASE i = Len(writers) + 1
      BY <1>1, <1>2, <2>1
    <2>2. CASE i \in 1..Len(writers)
      BY <1>2, <2>2 DEF StackOK
    <2> QED
      BY <1>2, <2>1, <2>2
  <1>4. signals' \in 0..MaxSignals /\ mode' = "running"
    BY HealthFileAssumption DEF StackOK, SignalArrives
  <1>5. Len(writers') <= signals' + 1
    BY <1>2 DEF StackOK, SignalArrives
  <1> QED
    BY <1>2, <1>3, <1>4, <1>5 DEF StackOK

\* A stack of no call, or of one.
LEMMA StackStarts ==
    ASSUME StackOK, signals' \in 0..MaxSignals,
           mode' \in {"running", "exiting", "failing", "over"},
           \/ writers' = <<>>
           \/ \E r \in AllRecords : writers' = <<Writer(r)>> /\ mode' # "over"
    PROVE  StackOK'
  <1>0. 0 <= signals' + 1 /\ 1 <= signals' + 1
    <2>1. \A n \in Nat : 0 <= n + 1 /\ 1 <= n + 1
      OBVIOUS
    <2>2. signals' \in Nat
      BY HealthFileAssumption
    <2> QED
      BY <2>1, <2>2, Zenon
  <1>1. CASE writers' = <<>>
    <2>1. writers' \in Seq(Writers) /\ Len(writers') = 0
      BY <1>1, EmptySeq
    <2>2. \A i \in 1..Len(writers') : i > 1 => writers'[i].record = "stopped"
      BY <2>1
    <2>3. Len(writers') <= signals' + 1
      BY <2>1, <1>0, Zenon
    <2> QED
      BY <1>1, <2>1, <2>2, <2>3 DEF StackOK
  <1>2. ASSUME NEW r \in AllRecords, writers' = <<Writer(r)>>, mode' # "over"
        PROVE  StackOK'
    <2>1. writers' \in Seq(Writers) /\ Len(writers') = 1
      BY <1>2, WriterTyped
    <2>2. \A i \in 1..Len(writers') : i > 1 => writers'[i].record = "stopped"
      BY <2>1
    <2>3. Len(writers') <= signals' + 1
      BY <2>1, <1>0, Zenon
    <2>4. mode' # "over"
      BY <1>2
    <2> QED
      BY <2>1, <2>2, <2>3, <2>4 DEF StackOK
  <1> QED
    BY <1>1, <1>2

\* What the steps of a call make of it.
LEMMA NextWriter ==
    ASSUME NEW w \in Writers
    PROVE  /\ \A i \in Inodes : LET v == [w EXCEPT !.step = "dump", !.inode = i] IN
                 /\ v \in Writers /\ v.record = w.record
                 /\ v.step = "dump" /\ v.inode = i /\ v.buffer = w.buffer
           /\ w.step = "dump" =>
                 /\ [w EXCEPT !.buffer = "part"] \in Writers
                 /\ [w EXCEPT !.buffer = "part"].record = w.record
                 /\ [w EXCEPT !.buffer = "whole", !.step = "flush"] \in Writers
                 /\ [w EXCEPT !.buffer = "whole", !.step = "flush"].record = w.record
           /\ w.step = "flush" =>
                 /\ w.inode \in Inodes
                 /\ [w EXCEPT !.step = "fsync", !.buffer = "nothing"] \in Writers
                 /\ [w EXCEPT !.step = "fsync", !.buffer = "nothing"].record = w.record
           /\ w.step = "fsync" =>
                 /\ [w EXCEPT !.step = "replace"] \in Writers
                 /\ [w EXCEPT !.step = "replace"].record = w.record
           /\ w.buffer # "nothing" => w.inode \in Inodes
  <1>1. w \in Calls /\ (w.inode = NoFile => w.step = "open" /\ w.buffer = "nothing")
    BY DEF Writers
  <1>2. \A i \in Inodes : LET v == [w EXCEPT !.step = "dump", !.inode = i] IN
           /\ v \in Writers /\ v.record = w.record
           /\ v.step = "dump" /\ v.inode = i /\ v.buffer = w.buffer
    BY <1>1, HealthFileAssumption DEF Writers, Calls, Steps
  <1>3. w.step = "dump" =>
           /\ [w EXCEPT !.buffer = "part"] \in Writers
           /\ [w EXCEPT !.buffer = "part"].record = w.record
           /\ [w EXCEPT !.buffer = "whole", !.step = "flush"] \in Writers
           /\ [w EXCEPT !.buffer = "whole", !.step = "flush"].record = w.record
    BY <1>1 DEF Writers, Calls, Steps
  <1>4. w.step = "flush" =>
           /\ w.inode \in Inodes
           /\ [w EXCEPT !.step = "fsync", !.buffer = "nothing"] \in Writers
           /\ [w EXCEPT !.step = "fsync", !.buffer = "nothing"].record = w.record
    BY <1>1 DEF Writers, Calls, Steps
  <1>5. w.step = "fsync" =>
           /\ [w EXCEPT !.step = "replace"] \in Writers
           /\ [w EXCEPT !.step = "replace"].record = w.record
    BY <1>1 DEF Writers, Calls, Steps
  <1> QED
    BY <1>1, <1>2, <1>3, <1>4, <1>5 DEF Calls

LEMMA StackInit == Init => StackOK
  <1>1. <<>> \in Seq(Writers) /\ Len(<<>>) = 0
    BY EmptySeq
  <1> QED
    BY <1>1, HealthFileAssumption DEF Init, StackOK

LEMMA StackStep == StackOK /\ FilesOK /\ [Next]_vars => StackOK'
  <1> SUFFICES ASSUME StackOK, FilesOK, [Next]_vars PROVE StackOK'
    OBVIOUS
  <1>t. ASSUME writers # <<>>
        PROVE  /\ Top \in Writers /\ Top.record \in AllRecords
               /\ Top.record # "stopped" => Len(writers) = 1
    BY <1>t, TopTyped
  <1>1. CASE BeginWrite
    BY <1>1, StackStarts DEF BeginWrite, StackOK, AllRecords
  <1>2. CASE OpenTmp
    <2>1. PICK i \in Inodes : SetTop([Top EXCEPT !.step = "dump", !.inode = i])
      BY <1>2 DEF OpenTmp, FreeInodes, FilesOK, Names
    <2> QED
      BY <1>2, <1>t, <2>1, NextWriter, StackSteps DEF OpenTmp, At
  <1>3. CASE Dump
    <2>1. /\ writers # <<>> /\ Top.step = "dump" /\ mode' = mode /\ signals' = signals
          /\ \/ SetTop([Top EXCEPT !.buffer = "part"])
             \/ SetTop([Top EXCEPT !.buffer = "whole", !.step = "flush"])
      BY <1>3 DEF Dump, At, SetTop
    <2> QED
      BY <1>t, <2>1, NextWriter, StackSteps
  <1>4. CASE Flush
    BY <1>4, <1>t, NextWriter, StackSteps DEF Flush, At
  <1>5. CASE Fsync
    BY <1>5, <1>t, NextWriter, StackSteps DEF Fsync, At
  <1>6. CASE Replace
    BY <1>6, <1>t, StackReturns DEF Replace, At, AfterWrite
  <1>7. CASE SignalArrives
    BY <1>7, StackGrows
  <1>8. CASE StorageFails
    BY <1>8, <1>t, StackReturns DEF StorageFails
  <1>9. CASE Unwinds
    BY <1>9, <1>t, StackReturns DEF Unwinds
  <1>10. CASE Unwound
    <2>1. "failed" \in AllRecords
      BY DEF AllRecords
    <2> QED
      BY <1>10, <2>1, StackStarts DEF Unwound, StackOK
  <1>11. CASE Killed
    BY <1>11, StackStarts DEF Killed, StackOK
  <1>12. CASE Restarts
    BY <1>12, StackStarts, HealthFileAssumption DEF Restarts, StackOK
  <1>13. CASE PowerFails
    BY <1>13, StackStarts DEF PowerFails, StackOK
  <1>14. CASE UNCHANGED <<writers, mode, signals>>
    BY <1>14 DEF StackOK
  <1>15. DirectorySynced \/ ReaderOpens \/ ReaderCloses \/ UNCHANGED vars
           => UNCHANGED <<writers, mode, signals>>
    BY DEF DirectorySynced, ReaderOpens, ReaderCloses, vars, processVars
  <1> QED
    BY <1>1, <1>2, <1>3, <1>4, <1>5, <1>6, <1>7, <1>8, <1>9, <1>10, <1>11, <1>12,
       <1>13, <1>14, <1>15 DEF Next, Write

\* What a file that has a name, or is open, contains is kept.
LEMMA KeepEffect ==
    ASSUME NEW contents \in [Inodes -> Contents], NEW unsynced \in SUBSET Inodes,
           Keep(contents, unsynced)
    PROVE  /\ data' \in [Inodes -> Contents]
           /\ dirty' \in SUBSET Inodes
           /\ \A i \in dirty' : i \in unsynced
           /\ \A i \in Inodes :
                 i \in {names.json, names.tmp, disk.json, disk.tmp, opened}' =>
                    data'[i] = contents[i]
  <1>1. {names.json, names.tmp, disk.json, disk.tmp, opened}' \subseteq InUse'
    BY DEF InUse
  <1>2. data' = [i \in Inodes |-> IF i \in InUse' THEN contents[i] ELSE "empty"]
    BY DEF Keep
  <1>3. \A i \in Inodes : data'[i] = IF i \in InUse' THEN contents[i] ELSE "empty"
    BY <1>2
  <1>4. dirty' = unsynced \cap InUse'
    BY DEF Keep
  <1>5. data' \in [Inodes -> Contents]
    BY <1>2 DEF Contents
  <1> QED
    BY <1>1, <1>3, <1>4, <1>5

\* A write leaves every file but the one it is made to as it was, and that one
\* with what is written.
LEMMA WriteEffect ==
    ASSUME FilesOK, NEW f \in Inodes, NEW c \in Contents,
           Keep([data EXCEPT ![f] = c], dirty \cup {f})
    PROVE  /\ data' \in [Inodes -> Contents]
           /\ dirty' \in SUBSET Inodes
           /\ \A i \in dirty' : i \in dirty \/ i = f
           /\ \A i \in Inodes :
                 i \in {names.json, names.tmp, disk.json, disk.tmp, opened}' =>
                    data'[i] = IF i = f THEN c ELSE data[i]
  <1> DEFINE contents == [data EXCEPT ![f] = c]
             unsynced == dirty \cup {f}
  <1>1. contents \in [Inodes -> Contents] /\ unsynced \in SUBSET Inodes
    BY DEF FilesOK
  <1>2. \A i \in Inodes : contents[i] = IF i = f THEN c ELSE data[i]
    BY DEF FilesOK
  <1>3. Keep(contents, unsynced)
    OBVIOUS
  <1>4. \A i \in unsynced : i \in dirty \/ i = f
    OBVIOUS
  <1> HIDE DEF contents, unsynced
  <1> QED
    BY <1>1, <1>2, <1>3, <1>4, KeepEffect

\* Nothing is written.
LEMMA QuietEffect ==
    ASSUME FilesOK, Keep(data, dirty)
    PROVE  /\ data' \in [Inodes -> Contents]
           /\ dirty' \in SUBSET Inodes
           /\ \A i \in dirty' : i \in dirty
           /\ \A i \in Inodes :
                 i \in {names.json, names.tmp, disk.json, disk.tmp, opened}' =>
                    data'[i] = data[i]
  BY KeepEffect DEF FilesOK

\* Opening tmp empties it; it is not the file of a record, whatever led to it.
LEMMA OpenEffect ==
    ASSUME FilesOK, OpenTmp
    PROVE  \E f \in Inodes :
             /\ names' = [json |-> names.json, tmp |-> f] /\ UNCHANGED <<disk, opened>>
             /\ SetTop([Top EXCEPT !.step = "dump", !.inode = f])
             /\ f = names.tmp \/ f \notin {names.json, disk.json, disk.tmp, opened}
             /\ names.tmp # NoFile => f = names.tmp
             /\ data' \in [Inodes -> Contents]
             /\ dirty' \in SUBSET Inodes
             /\ \A i \in dirty' : i \in dirty \/ i = f
             /\ \A i \in Inodes :
                   i \in {names.json, names.tmp, disk.json, disk.tmp, opened}' =>
                      data'[i] = IF i = f THEN "empty" ELSE data[i]
  <1>1. PICK f \in IF names.tmp = NoFile THEN FreeInodes ELSE {names.tmp} :
           /\ names' = [names EXCEPT !.tmp = f]
           /\ SetTop([Top EXCEPT !.step = "dump", !.inode = f])
           /\ Keep([data EXCEPT ![f] = "empty"], dirty \cup {f})
    BY DEF OpenTmp
  <1>2. /\ f \in Inodes /\ (names.tmp # NoFile => f = names.tmp)
        /\ f = names.tmp \/ f \notin {names.json, disk.json, disk.tmp, opened}
    BY <1>1 DEF FilesOK, Names, FreeInodes, InUse
  <1>3. names' = [json |-> names.json, tmp |-> f]
    BY <1>1 DEF FilesOK, Names
  <1>4. "empty" \in Contents
    BY DEF Contents
  <1>5. /\ data' \in [Inodes -> Contents]
        /\ dirty' \in SUBSET Inodes
        /\ \A i \in dirty' : i \in dirty \/ i = f
        /\ \A i \in Inodes :
              i \in {names.json, names.tmp, disk.json, disk.tmp, opened}' =>
                 data'[i] = IF i = f THEN "empty" ELSE data[i]
    BY <1>1, <1>2, <1>4, WriteEffect
  <1>6. UNCHANGED <<disk, opened>>
    BY DEF OpenTmp
  <1> QED
    BY <1>1, <1>2, <1>3, <1>5, <1>6

LEMMA WriteOutEffect ==
    ASSUME FilesOK, NEW w \in Writers, w.inode \in Inodes, WriteOut(w)
    PROVE  /\ data' \in [Inodes -> Contents]
           /\ dirty' \in SUBSET Inodes
           /\ \A i \in dirty' : i \in dirty \/ i = w.inode
           /\ \A i \in Inodes :
                 i \in {names.json, names.tmp, disk.json, disk.tmp, opened}' =>
                    data'[i] = IF i = w.inode
                               THEN IF w.buffer = "whole" THEN w.record ELSE "mixed"
                               ELSE data[i]
  <1> DEFINE c == IF w.buffer = "whole" THEN w.record ELSE "mixed"
  <1>1. c \in Contents
    BY DEF Contents, Writers, Calls
  <1>2. Keep([data EXCEPT ![w.inode] = c], dirty \cup {w.inode})
    BY DEF WriteOut
  <1> HIDE DEF c
  <1>3. /\ data' \in [Inodes -> Contents]
        /\ dirty' \in SUBSET Inodes
        /\ \A i \in dirty' : i \in dirty \/ i = w.inode
        /\ \A i \in Inodes :
              i \in {names.json, names.tmp, disk.json, disk.tmp, opened}' =>
                 data'[i] = IF i = w.inode THEN c ELSE data[i]
    BY <1>1, <1>2, WriteEffect
  <1> QED
    BY <1>3 DEF c

\* The file is closed on the way out of write_health.
LEMMA ClosesEffect ==
    ASSUME FilesOK, NEW w \in Writers, NEW written \in BOOLEAN, Closes(w, written)
    PROVE  /\ data' \in [Inodes -> Contents]
           /\ dirty' \in SUBSET Inodes
           /\ \A i \in dirty' : i \in dirty \/ (w.buffer # "nothing" /\ i = w.inode)
           /\ \A i \in Inodes :
                 i \in {names.json, names.tmp, disk.json, disk.tmp, opened}' =>
                    data'[i] = data[i] \/ (w.buffer # "nothing" /\ i = w.inode)
  <1>1. CASE w.buffer # "nothing" /\ written
    <2>1. WriteOut(w)
      BY <1>1 DEF Closes
    <2>2. w.inode \in Inodes
      BY <1>1, NextWriter
    <2> QED
      BY <1>1, <2>1, <2>2, WriteOutEffect
  <1>2. CASE ~(w.buffer # "nothing" /\ written)
    <2>1. Keep(data, dirty)
      BY <1>2 DEF Closes
    <2> QED
      BY <2>1, QuietEffect
  <1> QED
    BY <1>1, <1>2

\* A power failure leaves the contents of what was synced.
LEMMA PowerEffect ==
    ASSUME FilesOK, PowerFails
    PROVE  /\ names' \in {names, disk} /\ disk' = names' /\ opened' = NoFile
           /\ data' \in [Inodes -> Contents]
           /\ dirty' = {}
           /\ \A i \in Inodes :
                 i \in {names.json, names.tmp, disk.json, disk.tmp, opened}' =>
                    data'[i] = data[i] \/ i \in dirty
  <1>1. PICK lost \in SUBSET dirty :
           Keep([i \in Inodes |-> IF i \in lost THEN "mixed" ELSE data[i]], {})
    BY DEF PowerFails
  <1> DEFINE contents == [i \in Inodes |-> IF i \in lost THEN "mixed" ELSE data[i]]
  <1>2. contents \in [Inodes -> Contents]
    BY DEF FilesOK, Contents
  <1>3. \A i \in Inodes : contents[i] = data[i] \/ i \in dirty
    OBVIOUS
  <1>4. Keep(contents, {})
    BY <1>1
  <1> HIDE DEF contents
  <1>5. /\ data' \in [Inodes -> Contents]
        /\ \A i \in dirty' : i \in {}
        /\ \A i \in Inodes :
              i \in {names.json, names.tmp, disk.json, disk.tmp, opened}' =>
                 data'[i] = contents[i]
    BY <1>2, <1>4, KeepEffect
  <1>6. dirty' = {}
    BY <1>5
  <1>7. names' \in {names, disk} /\ disk' = names' /\ opened' = NoFile
    BY DEF PowerFails
  <1> QED
    BY <1>3, <1>5, <1>6, <1>7

\* The steps that change no file.
Still == UNCHANGED fileVars /\ opened' \in {opened, NoFile, names.json}

LEMMA StillSteps ==
    BeginWrite \/ Dump \/ SignalArrives \/ Unwound \/ Restarts \/ ReaderOpens
       \/ UNCHANGED vars => Still
  BY DEF BeginWrite, Dump, SignalArrives, Unwound, Restarts, ReaderOpens, vars, fileVars,
         Still

LEMMA FilesInit == Init => FilesOK
  BY DEF Init, FilesOK, Names, Contents

LEMMA FilesStep == StackOK /\ FilesOK /\ [Next]_vars => FilesOK'
  <1> SUFFICES ASSUME StackOK, FilesOK, [Next]_vars PROVE FilesOK'
    OBVIOUS
  <1>1. CASE Still
    BY <1>1 DEF Still, fileVars, FilesOK, Names
  <1>2. CASE OpenTmp
    <2>1. PICK f \in Inodes :
             /\ names' = [json |-> names.json, tmp |-> f] /\ UNCHANGED <<disk, opened>>
             /\ f = names.tmp \/ f \notin {names.json, disk.json, disk.tmp, opened}
             /\ data' \in [Inodes -> Contents]
             /\ dirty' \in SUBSET Inodes
      BY <1>2, OpenEffect
    <2> QED
      BY <2>1, HealthFileAssumption DEF FilesOK, Names
  <1>3. CASE Flush
    <2>1. Top \in Writers /\ Top.inode \in Inodes
      BY <1>3, TopTyped, NextWriter DEF Flush, At
    <2>2. WriteOut(Top) /\ UNCHANGED <<names, disk, opened>>
      BY <1>3 DEF Flush
    <2>3. data' \in [Inodes -> Contents] /\ dirty' \in SUBSET Inodes
      BY <2>1, <2>2, WriteOutEffect
    <2> QED
      BY <2>2, <2>3 DEF FilesOK
  <1>4. CASE Fsync
    BY <1>4 DEF Fsync, FilesOK
  <1>5. CASE Replace
    <2>1. names' = [json |-> names.tmp, tmp |-> NoFile] /\ names.tmp # NoFile
          /\ Keep(data, dirty) /\ UNCHANGED <<disk, opened>>
      BY <1>5 DEF Replace
    <2>2. data' \in [Inodes -> Contents] /\ dirty' \in SUBSET Inodes
      BY <2>1, QuietEffect
    <2> QED
      BY <2>1, <2>2 DEF FilesOK, Names
  <1>6. CASE StorageFails \/ Unwinds
    <2>1. PICK written \in BOOLEAN : Closes(Top, written)
      BY <1>6 DEF StorageFails, Unwinds
    <2>2. Top \in Writers /\ UNCHANGED <<names, disk, opened>>
      BY <1>6, TopTyped DEF StorageFails, Unwinds
    <2>3. data' \in [Inodes -> Contents] /\ dirty' \in SUBSET Inodes
      BY <2>1, <2>2, ClosesEffect
    <2> QED
      BY <2>2, <2>3 DEF FilesOK
  <1>7. CASE Killed \/ DirectorySynced \/ ReaderCloses
    <2>1. /\ Keep(data, dirty) /\ names' = names /\ disk' \in {disk, names}
          /\ opened' \in {opened, NoFile}
      BY <1>7 DEF Killed, DirectorySynced, ReaderCloses
    <2>2. data' \in [Inodes -> Contents] /\ dirty' \in SUBSET Inodes
      BY <2>1, QuietEffect
    <2> QED
      BY <2>1, <2>2 DEF FilesOK, Names
  <1>8. CASE PowerFails
    <2>1. /\ names' \in {names, disk} /\ disk' = names' /\ opened' = NoFile
          /\ data' \in [Inodes -> Contents] /\ dirty' = {}
      BY <1>8, PowerEffect
    <2> QED
      BY <2>1 DEF FilesOK, Names
  <1> QED
    BY <1>1, <1>2, <1>3, <1>4, <1>5, <1>6, <1>7, <1>8, StillSteps DEF Next, Write

LEMMA StopInit == Init => stopDone \in BOOLEAN
  BY DEF Init

LEMMA StopStep == stopDone \in BOOLEAN /\ [Next]_vars => stopDone' \in BOOLEAN
  <1> SUFFICES ASSUME stopDone \in BOOLEAN, [Next]_vars PROVE stopDone' \in BOOLEAN
    OBVIOUS
  <1>1. CASE UNCHANGED stopDone
    BY <1>1
  <1>2. CASE Replace
    BY <1>2 DEF Replace
  <1>3. CASE Restarts \/ PowerFails
    BY <1>3 DEF Restarts, PowerFails
  <1>4. CASE Next /\ ~Replace /\ ~Restarts /\ ~PowerFails
    <2>1. UNCHANGED stopDone
      BY <1>4 DEF Next, Write, BeginWrite, OpenTmp, Dump, Flush, Fsync, SignalArrives,
                  StorageFails, Unwinds, Unwound, Killed, DirectorySynced, ReaderOpens,
                  ReaderCloses, processVars
    <2> QED
      BY <2>1
  <1> QED
    BY <1>1, <1>2, <1>3, <1>4 DEF vars

\* Every variable keeps its type, whatever the steps at which signals strike.
LEMMA TypesKept == Spec => []TypeInv
  <1>1. Init => TypeInv
    BY StackInit, FilesInit, StopInit DEF TypeInv
  <1>2. TypeInv /\ [Next]_vars => TypeInv'
    BY StackStep, FilesStep, StopStep DEF TypeInv
  <1> QED
    BY <1>1, <1>2, PTL DEF Spec

\* Every variable has its type, at most one call per signal is in progress besides
\* the one of the loop, and json and tmp are never two names of one file
\* (health.py:97-101).
THEOREM HealthFileTypeCorrect == Spec => []HealthFileTypeOK
  BY TypesKept, TypeInvTypes, PTL

-----------------------------------------------------------------------------
(* The record, whatever the step at which a signal strikes.                  *)

\* The files that a reader, a power failure or a reader that has one open may
\* read are not the file that is being written.
Apart == \A i \in {names.json, disk.json, opened} : i # NoFile => i # names.tmp

\* They hold whole records, synced where a name leads to them.
Sound ==
    /\ \A i \in {names.json, disk.json, opened} : i # NoFile => data[i] \in AllRecords
    /\ names.json \notin dirty /\ disk.json \notin dirty

\* The call on top writes the file that is named tmp; before it replaces health.json
\* by it, the file holds its record, synced.
TopInv ==
    mode = "running" /\ writers # <<>> =>
       /\ Top.step # "open" => names.tmp # NoFile /\ Top.inode = names.tmp
       /\ Top.step \in {"fsync", "replace"} => data[names.tmp] = Top.record
       /\ Top.step = "replace" => names.tmp \notin dirty
       /\ Top.step \in {"open", "fsync", "replace"} => Top.buffer = "nothing"
       /\ Top.step = "flush" => Top.buffer = "whole"

\* Until a handler has replaced it, every call has opened the file that is named tmp.
InodeInv ==
    mode \in {"running", "failing"} =>
       \A i \in 1..Len(writers) : writers[i].inode \in {NoFile, names.tmp}

FileInv == TypeInv /\ Apart /\ TopInv /\ InodeInv

\* A call that a handler's exit unwinds writes out its buffer.
Tears == mode = "exiting" /\ Unwinds /\ Top.buffer # "nothing"

\* What a reader that opens the file, a power failure and a reader that has
\* opened it see.
SameView == UNCHANGED <<ContentsOf(names.json), ContentsOf(disk.json), ContentsOf(opened)>>

\* A write to a file that is none of those, or no write, changes nothing they see.
LEMMA RecordsKept ==
    ASSUME FilesOK, FilesOK', Apart, NEW f,
           names'.json = names.json, disk' = disk, opened' = opened,
           names'.tmp # names.tmp => names'.tmp \notin {names.json, disk.json, opened},
           f # NoFile => f \notin {names.json, disk.json, opened},
           \A i \in dirty' : i \in dirty \/ i = f,
           \A i \in Inodes :
              i \in {names.json, names.tmp, disk.json, disk.tmp, opened}' =>
                 data'[i] = data[i] \/ i = f
    PROVE  Apart' /\ SameView /\ (Sound => Sound')
  <1>1. ASSUME NEW i \in {names.json, disk.json, opened}, i # NoFile
        PROVE  i \in Inodes /\ data'[i] = data[i] /\ i # names'.tmp
    <2>1. i \in Inodes
      BY <1>1 DEF FilesOK, Names
    <2>2. i \in {names.json, names.tmp, disk.json, disk.tmp, opened}'
      OBVIOUS
    <2>3. i # f
      BY <1>1
    <2>4. i # names.tmp
      BY <1>1 DEF Apart
    <2>5. i # names'.tmp
      BY <2>4
    <2> QED
      BY <2>1, <2>2, <2>3, <2>5
  <1>2. Apart'
    BY <1>1 DEF Apart
  <1>3. ASSUME Sound PROVE Sound'
    <2>1. names'.json \notin dirty' /\ disk'.json \notin dirty'
      BY <1>3, HealthFileAssumption DEF Sound, FilesOK
    <2> QED
      BY <1>1, <1>3, <2>1 DEF Sound
  <1>4. SameView
    BY <1>1 DEF SameView, ContentsOf
  <1> QED
    BY <1>2, <1>3, <1>4

\* What the call on top writes to, before a handler's exit unwinds it.
LEMMA TopFile ==
    ASSUME FileInv, writers # <<>>
    PROVE  /\ Top \in Writers
           /\ mode \in {"running", "failing"} => Top.inode \in {NoFile, names.tmp}
           /\ mode = "running" /\ Top.step # "open" =>
                 Top.inode = names.tmp /\ names.tmp \in Inodes
           /\ Top.buffer # "nothing" => Top.inode \in Inodes
           /\ names.tmp # NoFile => names.tmp \notin {names.json, disk.json, opened}
  <1>1. Top \in Writers /\ Len(writers) \in Nat \ {0} /\ Top = writers[Len(writers)]
    BY TopTyped DEF FileInv, TypeInv
  <1>2. mode = "running" /\ Top.step # "open" => Top.inode = names.tmp /\ names.tmp \in Inodes
    BY DEF FileInv, TopInv, TypeInv, FilesOK, Names
  <1>3. mode \in {"running", "failing"} => Top.inode \in {NoFile, names.tmp}
    <2>1. Len(writers) \in 1..Len(writers)
      BY <1>1
    <2> QED
      BY <1>1, <2>1 DEF FileInv, InodeInv
  <1>4. Top.buffer # "nothing" => Top.inode \in Inodes
    BY <1>1, NextWriter
  <1>5. names.tmp # NoFile => names.tmp \notin {names.json, disk.json, opened}
    BY DEF FileInv, Apart
  <1> QED
    BY <1>1, <1>2, <1>3, <1>4, <1>5

\* Nothing but os.replace changes what health.json holds while the process runs, and
\* nothing but a call that is torn by a handler's exit once it does not.
LEMMA QuietView ==
    ASSUME FileInv, FilesOK', ~Tears,
           \/ BeginWrite \/ OpenTmp \/ Dump \/ Flush \/ Fsync \/ SignalArrives
           \/ StorageFails \/ Unwinds \/ Unwound \/ Killed \/ Restarts \/ UNCHANGED vars
    PROVE  Apart' /\ SameView /\ (Sound => Sound')
  <1> USE DEF FileInv, TypeInv
  <1>1. CASE UNCHANGED fileVars /\ UNCHANGED opened
    BY <1>1 DEF fileVars, Apart, Sound, SameView, ContentsOf
  <1>2. CASE OpenTmp
    <2>1. PICK f \in Inodes :
             /\ names' = [json |-> names.json, tmp |-> f] /\ UNCHANGED <<disk, opened>>
             /\ f = names.tmp \/ f \notin {names.json, disk.json, disk.tmp, opened}
             /\ \A i \in dirty' : i \in dirty \/ i = f
             /\ \A i \in Inodes :
                   i \in {names.json, names.tmp, disk.json, disk.tmp, opened}' =>
                      data'[i] = IF i = f THEN "empty" ELSE data[i]
      BY <1>2, OpenEffect
    <2>2. names'.json = names.json /\ names'.tmp = f
      BY <2>1
    <2>3. f \notin {names.json, disk.json, opened}
      BY <1>2, <2>1, HealthFileAssumption, TopFile DEF OpenTmp, At
    <2>4. \A i \in Inodes :
             i \in {names.json, names.tmp, disk.json, disk.tmp, opened}' =>
                data'[i] = data[i] \/ i = f
      BY <2>1
    <2> QED
      BY <2>1, <2>2, <2>3, <2>4, RecordsKept
  <1>3. CASE Flush
    <2>1. Top \in Writers /\ Top.inode = names.tmp /\ names.tmp \in Inodes
          /\ names.tmp \notin {names.json, disk.json, opened}
      BY <1>3, HealthFileAssumption, TopFile DEF Flush, At
    <2>2. WriteOut(Top) /\ UNCHANGED <<names, disk, opened>>
      BY <1>3 DEF Flush
    <2>3. /\ \A i \in dirty' : i \in dirty \/ i = Top.inode
          /\ \A i \in Inodes :
                i \in {names.json, names.tmp, disk.json, disk.tmp, opened}' =>
                   data'[i] = data[i] \/ i = Top.inode
      BY <2>1, <2>2, WriteOutEffect
    <2> QED
      BY <2>1, <2>2, <2>3, RecordsKept
  <1>4. CASE Fsync
    <2>1. /\ dirty' = dirty \ {Top.inode} /\ UNCHANGED <<names, disk, data, opened>>
      BY <1>4 DEF Fsync
    <2>2. \A i \in dirty' : i \in dirty \/ i = NoFile
      BY <2>1
    <2> QED
      BY <2>1, <2>2, RecordsKept
  <1>5. CASE StorageFails \/ Unwinds
    <2>1. PICK written \in BOOLEAN : Closes(Top, written)
      BY <1>5 DEF StorageFails, Unwinds
    <2>2. writers # <<>> /\ UNCHANGED <<names, disk, opened>>
      BY <1>5 DEF StorageFails, Unwinds
    <2>3. Top \in Writers
      BY <2>2, TopFile
    <2>4. /\ \A i \in dirty' : i \in dirty \/ (Top.buffer # "nothing" /\ i = Top.inode)
          /\ \A i \in Inodes :
                i \in {names.json, names.tmp, disk.json, disk.tmp, opened}' =>
                   data'[i] = data[i] \/ (Top.buffer # "nothing" /\ i = Top.inode)
      BY <2>1, <2>3, ClosesEffect
    <2>5. CASE Top.buffer = "nothing"
      <3>1. /\ \A i \in dirty' : i \in dirty \/ i = NoFile
            /\ \A i \in Inodes :
                  i \in {names.json, names.tmp, disk.json, disk.tmp, opened}' =>
                     data'[i] = data[i] \/ i = NoFile
        BY <2>4, <2>5
      <3> QED
        BY <2>2, <3>1, RecordsKept
    <2>6. CASE Top.buffer # "nothing"
      <3>1. mode \in {"running", "failing"}
        BY <1>5, <2>6 DEF StorageFails, Unwinds, Tears
      <3>2. Top.inode = names.tmp /\ names.tmp \notin {names.json, disk.json, opened}
        BY <2>2, <2>6, <3>1, HealthFileAssumption, TopFile
      <3>3. /\ \A i \in dirty' : i \in dirty \/ i = Top.inode
            /\ \A i \in Inodes :
                  i \in {names.json, names.tmp, disk.json, disk.tmp, opened}' =>
                     data'[i] = data[i] \/ i = Top.inode
        BY <2>4
      <3> QED
        BY <2>2, <3>2, <3>3, RecordsKept
    <2> QED
      BY <2>5, <2>6
  <1>6. CASE Killed
    <2>1. Keep(data, dirty) /\ UNCHANGED <<names, disk, opened>>
      BY <1>6 DEF Killed
    <2>2. /\ \A i \in dirty' : i \in dirty \/ i = NoFile
          /\ \A i \in Inodes :
                i \in {names.json, names.tmp, disk.json, disk.tmp, opened}' =>
                   data'[i] = data[i] \/ i = NoFile
      BY <2>1, QuietEffect
    <2> QED
      BY <2>1, <2>2, RecordsKept
  <1>7. BeginWrite \/ Dump \/ SignalArrives \/ Unwound \/ Restarts \/ UNCHANGED vars
           => UNCHANGED fileVars /\ UNCHANGED opened
    BY DEF BeginWrite, Dump, SignalArrives, Unwound, Restarts, vars, fileVars
  <1> QED
    BY <1>1, <1>2, <1>3, <1>4, <1>5, <1>6, <1>7

\* os.replace makes the record of the call on top the contents of health.json.
LEMMA ReplaceView ==
    ASSUME FileInv, FilesOK', Replace
    PROVE  Apart' /\ Register!Commit /\ ContentsOf(names.json)' = Top.record /\ (Sound => Sound')
  <1> USE DEF FileInv, TypeInv
  <1>1. /\ writers # <<>> /\ mode = "running" /\ Top.step = "replace" /\ names.tmp # NoFile
        /\ names' = [json |-> names.tmp, tmp |-> NoFile] /\ UNCHANGED <<disk, opened>>
        /\ Keep(data, dirty)
    BY DEF Replace, At
  <1>2. /\ dirty' \in SUBSET Inodes /\ \A i \in dirty' : i \in dirty
        /\ \A i \in Inodes :
              i \in {names.json, names.tmp, disk.json, disk.tmp, opened}' => data'[i] = data[i]
    BY <1>1, QuietEffect
  <1>3. names'.json = names.tmp /\ names'.tmp = NoFile
    BY <1>1
  <1>4. /\ data[names.tmp] = Top.record /\ names.tmp \notin dirty
        /\ Top.record \in AllRecords /\ names.tmp \in Inodes
    BY <1>1, TopTyped DEF TopInv, FilesOK, Names
  <1>5. names'.json \in Inodes /\ data'[names'.json] = Top.record
    BY <1>2, <1>3, <1>4
  <1>6. ASSUME NEW i \in {disk.json, opened}, i # NoFile
        PROVE  i \in Inodes /\ data'[i] = data[i]
    <2>1. i \in Inodes
      BY <1>6 DEF FilesOK, Names
    <2>2. i \in {names.json, names.tmp, disk.json, disk.tmp, opened}'
      BY <1>1
    <2> QED
      BY <1>2, <2>1, <2>2
  <1>7. disk' = disk /\ opened' = opened
    BY <1>1
  <1>8. Apart'
    BY <1>3, <1>7 DEF Apart
  <1>9. ASSUME Sound PROVE Sound'
    <2>1. \A i \in {disk.json, opened} : i # NoFile => data'[i] \in AllRecords
      BY <1>6, <1>9 DEF Sound
    <2>2. \A i \in {names.json, disk.json, opened}' : i # NoFile => data'[i] \in AllRecords
      BY <1>4, <1>5, <1>7, <2>1
    <2>3. names'.json \notin dirty' /\ disk'.json \notin dirty'
      BY <1>2, <1>3, <1>4, <1>7, <1>9 DEF Sound
    <2> QED
      BY <2>2, <2>3 DEF Sound
  <1>10. ContentsOf(names.json)' = Top.record
    BY <1>5, HealthFileAssumption DEF ContentsOf
  <1>11. UNCHANGED <<ContentsOf(disk.json), ContentsOf(opened)>>
    BY <1>6, <1>7 DEF ContentsOf
  <1> QED
    BY <1>4, <1>8, <1>9, <1>10, <1>11 DEF Register!Commit

\* Writing back the directory settles the record.
LEMMA SyncedView ==
    ASSUME FileInv, FilesOK', DirectorySynced
    PROVE  Apart' /\ Register!Settle /\ (Sound => Sound')
  <1> USE DEF FileInv, TypeInv
  <1>1. disk' = names /\ UNCHANGED <<names, opened>> /\ Keep(data, dirty)
    BY DEF DirectorySynced
  <1>2. /\ dirty' \in SUBSET Inodes /\ \A i \in dirty' : i \in dirty
        /\ \A i \in Inodes :
              i \in {names.json, names.tmp, disk.json, disk.tmp, opened}' => data'[i] = data[i]
    BY <1>1, QuietEffect
  <1>3. ASSUME NEW i \in {names.json, opened}, i # NoFile
        PROVE  data'[i] = data[i]
    <2>1. i \in Inodes
      BY <1>3 DEF FilesOK, Names
    <2>2. i \in {names.json, names.tmp, disk.json, disk.tmp, opened}'
      BY <1>1
    <2> QED
      BY <1>2, <2>1, <2>2
  <1>4. Apart'
    BY <1>1 DEF Apart
  <1>5. Sound => Sound'
    BY <1>1, <1>2, <1>3 DEF Sound
  <1>6. UNCHANGED <<ContentsOf(names.json), ContentsOf(opened)>>
    BY <1>1, <1>3 DEF ContentsOf
  <1>7. ContentsOf(disk.json)' = ContentsOf(names.json)
    BY <1>1, <1>3 DEF ContentsOf
  <1> QED
    BY <1>4, <1>5, <1>6, <1>7 DEF Register!Settle

\* A power failure brings back the record that was settled, or keeps the last one.
LEMMA PowerView ==
    ASSUME FileInv, FilesOK', PowerFails
    PROVE  Apart' /\ (Sound => Sound' /\ Register!PowerFails)
  <1> USE DEF FileInv, TypeInv
  <1>1. /\ names' \in {names, disk} /\ disk' = names' /\ opened' = NoFile
        /\ dirty' = {}
        /\ \A i \in Inodes :
              i \in {names.json, names.tmp, disk.json, disk.tmp, opened}' =>
                 data'[i] = data[i] \/ i \in dirty
    BY PowerEffect
  <1>2. disk'.json = names'.json
    BY <1>1
  <1>3. Apart'
    BY <1>1, <1>2 DEF FilesOK, Apart
  <1>4. ASSUME Sound PROVE Sound' /\ Register!PowerFails
    <2>1. ASSUME names'.json # NoFile
          PROVE  data'[names'.json] = data[names'.json] /\ data[names'.json] \in AllRecords
      <3>1. names'.json \in {names.json, disk.json}
        BY <1>1
      <3>2. names'.json \in Inodes
        BY <2>1 DEF FilesOK, Names
      <3>3. names'.json \notin dirty /\ data[names'.json] \in AllRecords
        BY <1>4, <2>1, <3>1 DEF Sound
      <3>4. names'.json \in {names.json, names.tmp, disk.json, disk.tmp, opened}'
        OBVIOUS
      <3> QED
        BY <1>1, <3>2, <3>3, <3>4
    <2>2. Sound'
      BY <1>1, <1>2, <2>1 DEF Sound
    <2>3. ContentsOf(names.json)' \in {ContentsOf(names.json), ContentsOf(disk.json)}
      <3>1. CASE names'.json = NoFile
        BY <1>1, <3>1 DEF ContentsOf
      <3>2. CASE names'.json # NoFile
        BY <1>1, <2>1, <3>2 DEF ContentsOf
      <3> QED
        BY <3>1, <3>2
    <2>4. ContentsOf(disk.json)' = ContentsOf(names.json)' /\ ContentsOf(opened)' = "absent"
      BY <1>1, <1>2 DEF ContentsOf
    <2> QED
      BY <2>2, <2>3, <2>4 DEF Register!PowerFails
  <1> QED
    BY <1>3, <1>4

\* A reader reads the record it opened.
LEMMA ReaderView ==
    ASSUME FileInv, FilesOK', ReaderOpens \/ ReaderCloses
    PROVE  Apart' /\ Register!Open /\ (Sound => Sound')
  <1> USE DEF FileInv, TypeInv
  <1>1. CASE ReaderOpens
    <2>1. opened' = names.json /\ UNCHANGED <<names, disk, data, dirty>>
      BY <1>1 DEF ReaderOpens, fileVars
    <2>2. ContentsOf(opened)' = ContentsOf(names.json)
      BY <2>1 DEF ContentsOf
    <2>3. UNCHANGED <<ContentsOf(names.json), ContentsOf(disk.json)>>
      BY <2>1 DEF ContentsOf
    <2>4. Apart' /\ (Sound => Sound')
      BY <2>1 DEF Apart, Sound
    <2> QED
      BY <2>2, <2>3, <2>4 DEF Register!Open
  <1>2. CASE ReaderCloses
    <2>1. opened' = NoFile /\ UNCHANGED <<names, disk>> /\ Keep(data, dirty)
      BY <1>2 DEF ReaderCloses
    <2>2. /\ dirty' \in SUBSET Inodes /\ \A i \in dirty' : i \in dirty
          /\ \A i \in Inodes :
                i \in {names.json, names.tmp, disk.json, disk.tmp, opened}' => data'[i] = data[i]
      BY <2>1, QuietEffect
    <2>3. ASSUME NEW i \in {names.json, disk.json}, i # NoFile
          PROVE  data'[i] = data[i]
      <3>1. i \in Inodes
        BY <2>3 DEF FilesOK, Names
      <3>2. i \in {names.json, names.tmp, disk.json, disk.tmp, opened}'
        BY <2>1
      <3> QED
        BY <2>2, <3>1, <3>2
    <2>4. Apart' /\ (Sound => Sound')
      BY <2>1, <2>2, <2>3 DEF Apart, Sound
    <2>5. UNCHANGED <<ContentsOf(names.json), ContentsOf(disk.json)>>
      BY <2>1, <2>3 DEF ContentsOf
    <2>6. ContentsOf(opened)' = "absent"
      BY <2>1 DEF ContentsOf
    <2> QED
      BY <2>4, <2>5, <2>6 DEF Register!Open
  <1> QED
    BY <1>1, <1>2

\* A call that returns to a process that runs on was the only one.
LEMMA OnlyCallReturns ==
    ASSUME FileInv, Replace \/ StorageFails \/ Unwinds, mode' = "running"
    PROVE  writers' = <<>>
  <1> USE DEF FileInv, TypeInv
  <1>1. writers # <<>> /\ writers' = Front(writers)
    BY DEF Replace, At, AfterWrite, StorageFails, Unwinds
  <1>2. Len(writers) = 1
    <2>1. CASE Replace
      <3>1. Top.record # "stopped"
        BY <2>1 DEF Replace, AfterWrite
      <3> QED
        BY <1>1, <3>1, TopTyped
    <2>2. CASE StorageFails
      BY <2>2 DEF StorageFails
    <2>3. CASE Unwinds
      BY <2>3 DEF Unwinds
    <2> QED
      BY <2>1, <2>2, <2>3
  <1>3. writers' \in Seq(Writers) /\ Len(writers') = 0
    BY <1>1, <1>2, FrontOf DEF StackOK
  <1> QED
    BY <1>3, EmptySeq

LEMMA TopStep ==
    ASSUME FileInv, FilesOK', StackOK', [Next]_vars
    PROVE  TopInv'
  <1> USE DEF FileInv, TypeInv
  <1>t. writers # <<>> => Top \in Writers /\ Top \in Calls
    BY TopTyped DEF Writers
  <1>s. ASSUME NEW w \in Writers, writers # <<>>, SetTop(w)
        PROVE  Top' = w
    BY <1>s, Stepped DEF SetTop, StackOK, Top
  <1>1. CASE OpenTmp
    <2>1. PICK f \in Inodes :
             /\ SetTop([Top EXCEPT !.step = "dump", !.inode = f])
             /\ names' = [json |-> names.json, tmp |-> f]
      BY <1>1, OpenEffect
    <2> DEFINE v == [Top EXCEPT !.step = "dump", !.inode = f]
    <2>2. writers # <<>> /\ v \in Writers /\ v.step = "dump" /\ v.inode = f
      BY <1>1, <1>t, NextWriter DEF OpenTmp, At
    <2>3. Top' = v
      BY <1>s, <2>1, <2>2
    <2>4. Top'.step = "dump" /\ Top'.inode = names'.tmp /\ names'.tmp # NoFile
      BY <2>1, <2>2, <2>3, HealthFileAssumption
    <2> QED
      BY <2>4 DEF TopInv
  <1>2. CASE Dump
    <2>1. /\ mode = "running" /\ writers # <<>> /\ Top.step = "dump" /\ UNCHANGED fileVars
          /\ \/ SetTop([Top EXCEPT !.buffer = "part"])
             \/ SetTop([Top EXCEPT !.buffer = "whole", !.step = "flush"])
      BY <1>2 DEF Dump, At, SetTop
    <2>2. \/ Top' = [Top EXCEPT !.buffer = "part"]
          \/ Top' = [Top EXCEPT !.buffer = "whole", !.step = "flush"]
      BY <1>t, <1>s, <2>1, NextWriter
    <2>3. Top'.inode = Top.inode /\ (Top'.step = "dump" \/ (Top'.step = "flush" /\ Top'.buffer = "whole"))
      BY <1>t, <2>1, <2>2 DEF Calls
    <2>4. Top.inode = names.tmp /\ names.tmp # NoFile
      BY <2>1 DEF TopInv
    <2> QED
      BY <2>1, <2>3, <2>4 DEF TopInv, fileVars
  <1>3. CASE Flush
    <2>1. /\ mode = "running" /\ writers # <<>> /\ Top.step = "flush"
          /\ SetTop([Top EXCEPT !.step = "fsync", !.buffer = "nothing"])
          /\ WriteOut(Top) /\ UNCHANGED <<names, disk, opened>>
      BY <1>3 DEF Flush, At
    <2>2. Top' = [Top EXCEPT !.step = "fsync", !.buffer = "nothing"]
      BY <1>t, <1>s, <2>1, NextWriter
    <2>3. /\ Top'.inode = Top.inode /\ Top'.step = "fsync" /\ Top'.buffer = "nothing"
          /\ Top'.record = Top.record
      BY <1>t, <2>1, <2>2 DEF Calls
    <2>4. Top.inode = names.tmp /\ names.tmp # NoFile /\ Top.buffer = "whole"
      BY <2>1 DEF TopInv
    <2>5. names.tmp \in Inodes
      BY <2>4 DEF FilesOK, Names
    <2>6. names.tmp \in {names.json, names.tmp, disk.json, disk.tmp, opened}'
      BY <2>1
    <2>7. data'[names.tmp] = Top.record
      BY <1>t, <2>1, <2>4, <2>5, <2>6, WriteOutEffect
    <2> QED
      BY <2>1, <2>3, <2>4, <2>7 DEF TopInv
  <1>4. CASE Fsync
    <2>1. /\ mode = "running" /\ writers # <<>> /\ Top.step = "fsync"
          /\ SetTop([Top EXCEPT !.step = "replace"])
          /\ dirty' = dirty \ {Top.inode} /\ UNCHANGED <<names, disk, data>>
      BY <1>4 DEF Fsync, At
    <2>2. Top' = [Top EXCEPT !.step = "replace"]
      BY <1>t, <1>s, <2>1, NextWriter
    <2>3. /\ Top'.inode = Top.inode /\ Top'.step = "replace" /\ Top'.buffer = Top.buffer
          /\ Top'.record = Top.record
      BY <1>t, <2>1, <2>2 DEF Calls
    <2>4. /\ Top.inode = names.tmp /\ names.tmp # NoFile /\ Top.buffer = "nothing"
          /\ data[names.tmp] = Top.record
      BY <2>1 DEF TopInv
    <2> QED
      BY <2>1, <2>3, <2>4 DEF TopInv
  <1>5. CASE SignalArrives
    <2>1. Top' = Writer("stopped")
      BY <1>5, WriterTyped, Pushed DEF SignalArrives, StackOK, AllRecords, Top
    <2> QED
      BY <2>1 DEF TopInv, Writer
  <1>6. CASE Replace \/ StorageFails \/ Unwinds
    BY <1>6, OnlyCallReturns DEF TopInv
  <1>7. CASE BeginWrite \/ Unwound
    <2>1. CASE mode' # "running"
      BY <2>1 DEF TopInv
    <2>2. CASE mode' = "running"
      <3>1. PICK r \in AllRecords : writers' = <<Writer(r)>>
        BY <1>7, <2>2 DEF BeginWrite, Unwound, AllRecords
      <3>2. Top' = Writer(r)
        BY <3>1 DEF Top, Last
      <3> QED
        BY <3>2 DEF TopInv, Writer
    <2> QED
      BY <2>1, <2>2
  <1>8. CASE Killed \/ PowerFails \/ Restarts
    BY <1>8 DEF Killed, PowerFails, Restarts, StackOK, TopInv
  <1>9. CASE DirectorySynced \/ ReaderCloses
    <2>1. UNCHANGED <<writers, mode, names>> /\ Keep(data, dirty)
      BY <1>9 DEF DirectorySynced, ReaderCloses, processVars
    <2>2. /\ \A i \in dirty' : i \in dirty
          /\ \A i \in Inodes :
                i \in {names.json, names.tmp, disk.json, disk.tmp, opened}' => data'[i] = data[i]
      BY <2>1, QuietEffect
    <2>3. names.tmp # NoFile => data'[names.tmp] = data[names.tmp]
      BY <2>1, <2>2 DEF FilesOK, Names
    <2>4. UNCHANGED Top
      BY <2>1 DEF Top
    <2> QED
      BY <2>1, <2>2, <2>3, <2>4 DEF TopInv
  <1>10. CASE ReaderOpens \/ UNCHANGED vars
    BY <1>10 DEF ReaderOpens, vars, processVars, fileVars, TopInv, Top
  <1> QED
    BY <1>1, <1>2, <1>3, <1>4, <1>5, <1>6, <1>7, <1>8, <1>9, <1>10 DEF Next, Write

\* A step that leaves the name tmp where it is, and opens no other file.
LEMMA InodesKept ==
    ASSUME FileInv, StackOK', names'.tmp = names.tmp,
           mode' \in {"running", "failing"} => mode \in {"running", "failing"},
           \/ /\ writers # <<>>
              /\ \E w \in Writers : w.inode \in {NoFile, names.tmp} /\ SetTop(w)
           \/ writers # <<>> /\ writers' = Front(writers)
           \/ \E r \in AllRecords : writers' = Append(writers, Writer(r))
           \/ UNCHANGED writers
    PROVE  InodeInv'
  <1> USE DEF FileInv, TypeInv
  <1> SUFFICES ASSUME mode' \in {"running", "failing"}, NEW i \in 1..Len(writers')
               PROVE  writers'[i].inode \in {NoFile, names'.tmp}
    BY DEF InodeInv
  <1>0. \A j \in 1..Len(writers) : writers[j].inode \in {NoFile, names.tmp}
    BY DEF InodeInv
  <1>1. ASSUME NEW w \in Writers, w.inode \in {NoFile, names.tmp}, writers # <<>>, SetTop(w)
        PROVE  writers'[i].inode \in {NoFile, names.tmp}
    <2>1. /\ Len(writers') = Len(writers) /\ writers'[Len(writers)] = w
          /\ \A j \in 1..Len(writers) - 1 : writers'[j] = writers[j]
          /\ Len(writers) \in Nat \ {0}
      BY <1>1, Stepped, TopTyped DEF SetTop, StackOK
    <2>2. CASE i = Len(writers)
      BY <1>1, <2>1, <2>2
    <2>3. CASE i # Len(writers)
      <3>1. i \in 1..Len(writers) - 1 /\ i \in 1..Len(writers)
        BY <2>1, <2>3
      <3> QED
        BY <1>0, <2>1, <3>1
    <2> QED
      BY <2>2, <2>3
  <1>2. CASE writers # <<>> /\ writers' = Front(writers)
    <2>1. /\ Len(writers') = Len(writers) - 1 /\ Len(writers) \in Nat \ {0}
          /\ \A j \in 1..Len(writers) - 1 : writers'[j] = writers[j]
      BY <1>2, FrontOf DEF StackOK
    <2>2. i \in 1..Len(writers) - 1 /\ i \in 1..Len(writers)
      BY <2>1
    <2> QED
      BY <1>0, <2>1, <2>2
  <1>3. ASSUME NEW r \in AllRecords, writers' = Append(writers, Writer(r))
        PROVE  writers'[i].inode \in {NoFile, names.tmp}
    <2>1. /\ Len(writers') = Len(writers) + 1 /\ writers'[Len(writers) + 1] = Writer(r)
          /\ \A j \in 1..Len(writers) : writers'[j] = writers[j]
          /\ Len(writers) \in Nat
      BY <1>3, WriterTyped, Pushed DEF StackOK
    <2>2. CASE i = Len(writers) + 1
      BY <2>1, <2>2 DEF Writer
    <2>3. CASE i # Len(writers) + 1
      <3>1. i \in 1..Len(writers)
        BY <2>1, <2>3
      <3> QED
        BY <1>0, <2>1, <3>1
    <2> QED
      BY <2>2, <2>3
  <1>4. CASE UNCHANGED writers
    BY <1>0, <1>4
  <1> QED
    BY <1>1, <1>2, <1>3, <1>4

LEMMA InodeStep ==
    ASSUME FileInv, FilesOK', StackOK', [Next]_vars
    PROVE  InodeInv'
  <1> USE DEF FileInv, TypeInv
  <1>t. writers # <<>> => Top \in Writers /\ Top \in Calls
    BY TopTyped DEF Writers
  <1>1. CASE OpenTmp
    <2>1. PICK f \in Inodes :
             /\ SetTop([Top EXCEPT !.step = "dump", !.inode = f])
             /\ names' = [json |-> names.json, tmp |-> f]
             /\ names.tmp # NoFile => f = names.tmp
      BY <1>1, OpenEffect
    <2> DEFINE v == [Top EXCEPT !.step = "dump", !.inode = f]
    <2>2. writers # <<>> /\ mode = "running" /\ v \in Writers /\ v.inode = f
      BY <1>1, <1>t, NextWriter DEF OpenTmp, At
    <2>3. SetTop(v) /\ names'.tmp = f
      BY <2>1
    <2> HIDE DEF v
    <2>4. /\ Len(writers') = Len(writers) /\ writers'[Len(writers)] = v
          /\ \A j \in 1..Len(writers) - 1 : writers'[j] = writers[j]
          /\ Len(writers) \in Nat \ {0}
      BY <2>2, <2>3, Stepped, TopTyped DEF SetTop, StackOK
    <2> SUFFICES ASSUME NEW i \in 1..Len(writers')
                 PROVE  writers'[i].inode \in {NoFile, f}
      BY <2>3 DEF InodeInv
    <2>5. CASE i = Len(writers)
      BY <2>2, <2>4, <2>5
    <2>6. CASE i # Len(writers)
      <3>1. i \in 1..Len(writers) - 1 /\ i \in 1..Len(writers)
        BY <2>4, <2>6
      <3>2. writers[i].inode \in {NoFile, names.tmp}
        BY <2>2, <3>1 DEF InodeInv
      <3> QED
        BY <2>1, <2>4, <3>1, <3>2
    <2> QED
      BY <2>5, <2>6
  <1>2. CASE Dump
    <2>1. /\ writers # <<>> /\ mode = "running" /\ Top.step = "dump" /\ names' = names
          /\ \/ SetTop([Top EXCEPT !.buffer = "part"])
             \/ SetTop([Top EXCEPT !.buffer = "whole", !.step = "flush"])
      BY <1>2 DEF Dump, At, SetTop, fileVars
    <2>2. /\ [Top EXCEPT !.buffer = "part"].inode = Top.inode
          /\ [Top EXCEPT !.buffer = "whole", !.step = "flush"].inode = Top.inode
      BY <1>t, <2>1 DEF Calls
    <2>3. Top.inode \in {NoFile, names.tmp}
      BY <2>1, TopFile
    <2>4. \E w \in Writers : w.inode \in {NoFile, names.tmp} /\ SetTop(w)
      BY <1>t, <2>1, <2>2, <2>3, NextWriter
    <2> QED
      BY <2>1, <2>4, InodesKept
  <1>3. CASE Flush
    <2>1. /\ writers # <<>> /\ mode = "running" /\ Top.step = "flush" /\ names' = names
          /\ SetTop([Top EXCEPT !.step = "fsync", !.buffer = "nothing"])
      BY <1>3 DEF Flush, At
    <2>2. [Top EXCEPT !.step = "fsync", !.buffer = "nothing"].inode = Top.inode
      BY <1>t, <2>1 DEF Calls
    <2>3. Top.inode \in {NoFile, names.tmp}
      BY <2>1, TopFile
    <2>4. \E w \in Writers : w.inode \in {NoFile, names.tmp} /\ SetTop(w)
      BY <1>t, <2>1, <2>2, <2>3, NextWriter
    <2> QED
      BY <2>1, <2>4, InodesKept
  <1>4. CASE Fsync
    <2>1. /\ writers # <<>> /\ mode = "running" /\ Top.step = "fsync" /\ names' = names
          /\ SetTop([Top EXCEPT !.step = "replace"])
      BY <1>4 DEF Fsync, At
    <2>2. [Top EXCEPT !.step = "replace"].inode = Top.inode
      BY <1>t, <2>1 DEF Calls
    <2>3. Top.inode \in {NoFile, names.tmp}
      BY <2>1, TopFile
    <2>4. \E w \in Writers : w.inode \in {NoFile, names.tmp} /\ SetTop(w)
      BY <1>t, <2>1, <2>2, <2>3, NextWriter
    <2> QED
      BY <2>1, <2>4, InodesKept
  <1>5. CASE SignalArrives
    <2>1. /\ \E r \in AllRecords : writers' = Append(writers, Writer(r))
          /\ names' = names /\ mode' = mode
      BY <1>5 DEF SignalArrives, fileVars, AllRecords
    <2> QED
      BY <2>1, InodesKept
  <1>6. CASE StorageFails \/ Unwinds
    <2>1. /\ writers # <<>> /\ writers' = Front(writers) /\ names' = names
          /\ mode' \in {"running", "failing"} => mode \in {"running", "failing"}
      BY <1>6 DEF StorageFails, Unwinds
    <2> QED
      BY <2>1, InodesKept
  <1>7. CASE Replace
    <2>1. mode' \in {"running", "exiting", "over"}
      BY <1>7 DEF Replace, AfterWrite
    <2>2. mode' = "running" => writers' = <<>>
      BY <1>7, OnlyCallReturns
    <2> QED
      BY <2>1, <2>2, EmptySeq DEF InodeInv
  <1>8. CASE BeginWrite \/ Unwound
    <2>1. \/ \E r \in AllRecords : writers' = <<Writer(r)>>
          \/ mode' = "over"
      BY <1>8 DEF BeginWrite, Unwound, AllRecords
    <2> QED
      BY <2>1 DEF InodeInv, Writer
  <1>9. CASE Killed \/ PowerFails \/ Restarts
    <2>1. writers' = <<>>
      BY <1>9 DEF Killed, PowerFails, Restarts, StackOK
    <2> QED
      BY <2>1, EmptySeq DEF InodeInv
  <1>10. CASE DirectorySynced \/ ReaderOpens \/ ReaderCloses \/ UNCHANGED vars
    <2>1. UNCHANGED <<writers, mode, names>>
      BY <1>10 DEF DirectorySynced, ReaderOpens, ReaderCloses, vars, processVars, fileVars
    <2> QED
      BY <2>1, InodesKept
  <1> QED
    BY <1>1, <1>2, <1>3, <1>4, <1>5, <1>6, <1>7, <1>8, <1>9, <1>10 DEF Next, Write

\* Every step but that of a torn call is one of the register, or none.
LEMMA FileStep ==
    ASSUME FileInv, [Next]_vars
    PROVE  /\ FileInv'
           /\ Sound /\ ~Tears => Sound' /\ [Register!Next]_Register!registerVars
  <1>1. TypeInv'
    BY StackStep, FilesStep, StopStep DEF FileInv, TypeInv
  <1>2. FilesOK' /\ StackOK'
    BY <1>1 DEF TypeInv
  <1>3. TopInv' /\ InodeInv'
    BY <1>2, TopStep, InodeStep
  <1> SUFFICES /\ Apart'
               /\ Sound /\ ~Tears => Sound' /\ [Register!Next]_Register!registerVars
    BY <1>1, <1>3 DEF FileInv
  <1>4. CASE Replace
    BY <1>2, <1>4, ReplaceView DEF Register!Next
  <1>5. CASE DirectorySynced
    BY <1>2, <1>5, SyncedView DEF Register!Next
  <1>6. CASE PowerFails
    BY <1>2, <1>6, PowerView DEF Register!Next
  <1>7. CASE ReaderOpens \/ ReaderCloses
    BY <1>2, <1>7, ReaderView DEF Register!Next
  <1>8. CASE Tears
    BY <1>8 DEF Tears, Unwinds, FileInv, Apart
  <1>9. CASE /\ ~Tears
             /\ \/ BeginWrite \/ OpenTmp \/ Dump \/ Flush \/ Fsync \/ SignalArrives
                \/ StorageFails \/ Unwinds \/ Unwound \/ Killed \/ Restarts \/ UNCHANGED vars
    BY <1>2, <1>9, QuietView DEF SameView, Register!registerVars
  <1> QED
    BY <1>4, <1>5, <1>6, <1>7, <1>8, <1>9 DEF Next, Write

LEMMA FileInit == Init => FileInv /\ Sound
  <1> SUFFICES ASSUME Init PROVE FileInv /\ Sound
    OBVIOUS
  <1>1. TypeInv
    BY StackInit, FilesInit, StopInit DEF TypeInv
  <1>2. Apart /\ Sound
    BY DEF Init, Apart, Sound
  <1>3. TopInv /\ InodeInv
    BY EmptySeq DEF Init, TopInv, InodeInv
  <1> QED
    BY <1>1, <1>2, <1>3 DEF FileInv

LEMMA FileInvHolds == Spec => []FileInv
  <1>1. FileInv /\ [Next]_vars => FileInv'
    BY FileStep
  <1> QED
    BY FileInit, <1>1, PTL DEF Spec

\* The one way in which a record that a reader or a power failure may find is torn,
\* and the one step that is not a register's: an interrupted write is closed, and its
\* buffer written out, on the way of a handler's sys.exit (health.py:101-104,
\* main.py:340). Neither the writes themselves, nested at any step, nor failures of
\* the disk, kills, restarts or power failures do it.
OnlyExitTears ==
    [][Sound /\ ~Tears => Sound' /\ [Register!Next]_Register!registerVars]_vars

\* Whatever the steps at which signals strike, only an exit tears a record.
THEOREM ExitAloneTears == Spec => OnlyExitTears
  <1>1. FileInv /\ [Next]_vars
           => [Sound /\ ~Tears => Sound' /\ [Register!Next]_Register!registerVars]_vars
    BY FileStep
  <1> QED
    BY <1>1, FileInvHolds, PTL DEF Spec, OnlyExitTears

-----------------------------------------------------------------------------
(* The record, when a signal waits until the record has left the buffer.     *)

SettledOnly == SignalSteps \subseteq {"open", "fsync", "replace"}

\* A call that was interrupted, or that unwinds, has nothing left to write.
BufferInv ==
    \A i \in 1..Len(writers) :
       (mode = "running" => i < Len(writers)) => writers[i].buffer = "nothing"

\* A step of the call on top, or one more call, leaves those below with nothing to
\* write; a call that returns leaves those.
LEMMA BuffersKept ==
    ASSUME FileInv, BufferInv, StackOK',
           \/ mode = "running" /\ writers # <<>> /\ (\E w \in Writers : SetTop(w)) /\ mode' = mode
           \/ writers # <<>> /\ writers' = Front(writers)
           \/ UNCHANGED <<writers, mode>>
           \/ writers' = <<>>
           \/ \E r \in AllRecords : writers' = <<Writer(r)>>
    PROVE  BufferInv'
  <1> USE DEF FileInv, TypeInv
  <1>1. CASE /\ mode = "running" /\ writers # <<>> /\ mode' = mode
             /\ \E w \in Writers : SetTop(w)
    <2>1. PICK w \in Writers : SetTop(w)
      BY <1>1
    <2>2. /\ Len(writers') = Len(writers)
          /\ \A i \in 1..Len(writers) - 1 : writers'[i] = writers[i]
          /\ Len(writers) \in Nat \ {0}
      BY <1>1, <2>1, Stepped, TopTyped DEF SetTop, StackOK
    <2> SUFFICES ASSUME NEW i \in 1..Len(writers'), mode' = "running" => i < Len(writers')
                 PROVE  writers'[i].buffer = "nothing"
      BY DEF BufferInv
    <2>3. i \in 1..Len(writers) /\ i < Len(writers) /\ i \in 1..Len(writers) - 1
      BY <1>1, <2>2
    <2> QED
      BY <2>2, <2>3 DEF BufferInv
  <1>2. CASE writers # <<>> /\ writers' = Front(writers)
    <2>1. /\ Len(writers') = Len(writers) - 1
          /\ \A i \in 1..Len(writers) - 1 : writers'[i] = writers[i]
          /\ Len(writers) \in Nat \ {0}
      BY <1>2, FrontOf DEF StackOK
    <2> SUFFICES ASSUME NEW i \in 1..Len(writers')
                 PROVE  writers'[i].buffer = "nothing"
      BY DEF BufferInv
    <2>2. i \in 1..Len(writers) /\ i < Len(writers) /\ i \in 1..Len(writers) - 1
      BY <2>1
    <2> QED
      BY <2>1, <2>2 DEF BufferInv
  <1>3. CASE UNCHANGED <<writers, mode>>
    BY <1>3 DEF BufferInv
  <1>4. CASE writers' = <<>>
    BY <1>4, EmptySeq DEF BufferInv
  <1>5. ASSUME NEW r \in AllRecords, writers' = <<Writer(r)>>
        PROVE  BufferInv'
    BY <1>5 DEF BufferInv, Writer
  <1> QED
    BY <1>1, <1>2, <1>3, <1>4, <1>5

LEMMA BufferStep ==
    ASSUME SettledOnly, FileInv, BufferInv, StackOK', [Next]_vars
    PROVE  BufferInv'
  <1> USE DEF FileInv, TypeInv
  <1>t. writers # <<>> => Top \in Writers
    BY TopTyped
  <1>1. CASE OpenTmp
    <2>1. PICK f \in Inodes : SetTop([Top EXCEPT !.step = "dump", !.inode = f])
      BY <1>1, OpenEffect
    <2>2. [Top EXCEPT !.step = "dump", !.inode = f] \in Writers
      BY <1>1, <1>t, NextWriter DEF OpenTmp, At
    <2>3. mode = "running" /\ writers # <<>> /\ mode' = mode
      BY <1>1 DEF OpenTmp, At
    <2> QED
      BY <2>1, <2>2, <2>3, BuffersKept
  <1>2. CASE Dump
    <2>1. /\ mode = "running" /\ writers # <<>> /\ Top.step = "dump" /\ mode' = mode
          /\ \/ SetTop([Top EXCEPT !.buffer = "part"])
             \/ SetTop([Top EXCEPT !.buffer = "whole", !.step = "flush"])
      BY <1>2 DEF Dump, At, SetTop
    <2> QED
      BY <1>t, <2>1, NextWriter, BuffersKept
  <1>3. CASE Flush
    <2>1. /\ mode = "running" /\ writers # <<>> /\ Top.step = "flush" /\ mode' = mode
          /\ SetTop([Top EXCEPT !.step = "fsync", !.buffer = "nothing"])
      BY <1>3 DEF Flush, At
    <2> QED
      BY <1>t, <2>1, NextWriter, BuffersKept
  <1>4. CASE Fsync
    <2>1. /\ mode = "running" /\ writers # <<>> /\ Top.step = "fsync" /\ mode' = mode
          /\ SetTop([Top EXCEPT !.step = "replace"])
      BY <1>4 DEF Fsync, At
    <2> QED
      BY <1>t, <2>1, NextWriter, BuffersKept
  <1>5. CASE SignalArrives
    <2>1. /\ writers' \in Seq(Writers) /\ Len(writers) \in Nat
          /\ Len(writers') = Len(writers) + 1
          /\ \A i \in 1..Len(writers) : writers'[i] = writers[i]
          /\ mode = "running" /\ mode' = "running"
      BY <1>5, WriterTyped, Pushed DEF SignalArrives, StackOK, AllRecords
    <2>2. writers # <<>> => Top.buffer = "nothing"
      BY <1>5 DEF SignalArrives, SettledOnly, TopInv
    <2> SUFFICES ASSUME NEW i \in 1..Len(writers'), i < Len(writers')
                 PROVE  writers'[i].buffer = "nothing"
      BY <2>1 DEF BufferInv
    <2>3. i \in 1..Len(writers) /\ writers'[i] = writers[i]
      BY <2>1
    <2>4. CASE i < Len(writers)
      BY <2>1, <2>3, <2>4 DEF BufferInv
    <2>5. CASE i = Len(writers)
      <3>1. writers # <<>> /\ Top = writers[i]
        BY <2>3, <2>5, EmptySeq, TopTyped
      <3> QED
        BY <2>2, <2>3, <3>1
    <2> QED
      BY <2>1, <2>3, <2>4, <2>5
  <1>6. CASE Replace \/ StorageFails \/ Unwinds
    BY <1>6, BuffersKept DEF Replace, At, AfterWrite, StorageFails, Unwinds
  <1>7. CASE BeginWrite \/ Unwound
    <2>1. \/ \E r \in AllRecords : writers' = <<Writer(r)>>
          \/ writers' = <<>>
      BY <1>7 DEF BeginWrite, Unwound, AllRecords
    <2> QED
      BY <2>1, BuffersKept
  <1>8. CASE Killed \/ Restarts \/ PowerFails
    <2>1. writers' = <<>>
      BY <1>8 DEF Killed, Restarts, PowerFails, StackOK
    <2> QED
      BY <2>1, BuffersKept
  <1>9. CASE DirectorySynced \/ ReaderOpens \/ ReaderCloses \/ UNCHANGED vars
    <2>1. UNCHANGED <<writers, mode>>
      BY <1>9 DEF DirectorySynced, ReaderOpens, ReaderCloses, vars, processVars
    <2> QED
      BY <2>1, BuffersKept
  <1> QED
    BY <1>1, <1>2, <1>3, <1>4, <1>5, <1>6, <1>7, <1>8, <1>9 DEF Next, Write

LEMMA NothingTears ==
    ASSUME FileInv, BufferInv
    PROVE  ~Tears
  <1> SUFFICES ASSUME mode = "exiting", writers # <<>> PROVE Top.buffer = "nothing"
    BY DEF Tears, Unwinds
  <1>1. Len(writers) \in 1..Len(writers) /\ Top = writers[Len(writers)]
    BY TopTyped DEF FileInv, TypeInv
  <1> QED
    BY <1>1 DEF BufferInv

\* Once a stop is recorded, nothing but a write of the next run follows.
StopInv ==
    stopDone => mode \in {"exiting", "over"} /\ ContentsOf(names.json) = "stopped"

LEMMA StopStepKept ==
    ASSUME FileInv, FilesOK', StopInv, ~Tears, [Next]_vars
    PROVE  StopInv'
  <1> SUFFICES ASSUME stopDone'
               PROVE  /\ mode' \in {"exiting", "over"}
                      /\ ContentsOf(names.json)' = "stopped"
    BY DEF StopInv
  <1>1. CASE Replace
    <2>1. stopDone \/ Top.record = "stopped"
      BY <1>1 DEF Replace
    <2>2. ~stopDone
      BY <1>1 DEF Replace, At, StopInv
    <2>3. Top.record = "stopped"
      BY <2>1, <2>2
    <2> QED
      BY <1>1, <2>3, ReplaceView DEF Replace, AfterWrite
  <1>2. ASSUME UNCHANGED stopDone
        PROVE  mode \in {"exiting", "over"} /\ ContentsOf(names.json) = "stopped"
    BY <1>2 DEF StopInv
  <1>3. CASE DirectorySynced
    <2>1. UNCHANGED <<stopDone, mode>>
      BY <1>3 DEF DirectorySynced, processVars
    <2>2. ContentsOf(names.json)' = ContentsOf(names.json)
      BY <1>3, SyncedView DEF Register!Settle
    <2> QED
      BY <1>2, <2>1, <2>2
  <1>4. CASE ReaderOpens \/ ReaderCloses
    <2>1. UNCHANGED <<stopDone, mode>>
      BY <1>4 DEF ReaderOpens, ReaderCloses, processVars
    <2>2. ContentsOf(names.json)' = ContentsOf(names.json)
      BY <1>4, ReaderView DEF Register!Open
    <2> QED
      BY <1>2, <2>1, <2>2
  <1>5. CASE PowerFails \/ Restarts
    BY <1>5 DEF PowerFails, Restarts
  <1>6. CASE \/ BeginWrite \/ OpenTmp \/ Dump \/ Flush \/ Fsync \/ SignalArrives
             \/ StorageFails
    BY <1>2, <1>6 DEF BeginWrite, OpenTmp, Dump, Flush, Fsync, SignalArrives, StorageFails, At
  <1>7. CASE Unwinds \/ Unwound \/ Killed \/ UNCHANGED vars
    <2>1. UNCHANGED stopDone
      BY <1>7 DEF Unwinds, Unwound, Killed, vars
    <2>2. ContentsOf(names.json)' = ContentsOf(names.json)
      BY <1>7, QuietView DEF SameView
    <2>3. mode \in {"exiting", "over"} => mode' \in {"exiting", "over"}
      BY <1>7 DEF Unwinds, Unwound, Killed, vars
    <2> QED
      BY <1>2, <2>1, <2>2, <2>3
  <1> QED
    BY <1>1, <1>3, <1>4, <1>5, <1>6, <1>7 DEF Next, Write

WholeInv == FileInv /\ Sound /\ BufferInv /\ StopInv

LEMMA WholeStep ==
    ASSUME SettledOnly, WholeInv, [Next]_vars
    PROVE  WholeInv' /\ [Register!Next]_Register!registerVars
  <1> USE DEF WholeInv
  <1>1. ~Tears
    BY NothingTears
  <1>2. FileInv' /\ Sound' /\ [Register!Next]_Register!registerVars
    BY <1>1, FileStep
  <1>3. FilesOK' /\ StackOK'
    BY <1>2 DEF FileInv, TypeInv
  <1>4. BufferInv' /\ StopInv'
    BY <1>1, <1>3, BufferStep, StopStepKept
  <1> QED
    BY <1>2, <1>4

LEMMA WholeInvHolds ==
    ASSUME SettledOnly
    PROVE  Spec => []WholeInv
  <1>1. Init => BufferInv /\ StopInv
    BY EmptySeq DEF Init, BufferInv, StopInv
  <1>2. Init => WholeInv
    BY <1>1, FileInit DEF WholeInv
  <1>3. WholeInv /\ [Next]_vars => WholeInv'
    BY WholeStep
  <1> QED
    BY <1>2, <1>3, PTL DEF Spec

\* health.json is a whole record whenever it exists, if no signal strikes while a
\* record is in the buffer of its file (health.py:98-100): failures of the disk,
\* kills, restarts, power failures and signals at every other step cannot tear it.
THEOREM RecordIsWhole ==
    ASSUME SettledOnly
    PROVE  Spec => []RecordWhole
  <1>1. WholeInv => RecordWhole
    BY DEF WholeInv, Sound, RecordWhole
  <1> QED
    BY <1>1, WholeInvHolds, PTL

\* Under the same condition, a process that ends after its handler has recorded
\* "stopped" leaves that record: what it unwinds through on the way out writes
\* nothing over it (main.py:340).
THEOREM StopLeavesItsRecord ==
    ASSUME SettledOnly
    PROVE  Spec => []StopIsRecorded
  <1>1. WholeInv => StopIsRecorded
    BY DEF WholeInv, StopInv, StopIsRecorded, ContentsOf
  <1> QED
    BY <1>1, WholeInvHolds, PTL

\* Under the same condition, write_health implements an atomic register
\* (health.py:95-101): a record takes effect at its os.replace and at no other step,
\* what a reader has opened no longer changes, and only a power failure brings back
\* the record whose directory entry was last written back.
THEOREM FileIsRegister ==
    ASSUME SettledOnly
    PROVE  Spec => IsAtomicRegister
  <1>1. Init => Register!Init
    BY DEF Init, Register!Init, ContentsOf
  <1>2. WholeInv /\ [Next]_vars => [Register!Next]_Register!registerVars
    BY WholeStep
  <1> QED
    BY <1>1, <1>2, WholeInvHolds, PTL DEF Spec, IsAtomicRegister, Register!Spec
=============================================================================
