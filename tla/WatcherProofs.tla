------------------------------ MODULE WatcherProofs ------------------------------
(***************************************************************************)
(* Hot reload, for any files, texts, clients and channel capacity: what is *)
(* shown for a file and what was stored for it never lag behind what the   *)
(* thread has taken note of, and no event stream has a gap.                *)
(***************************************************************************)
EXTENDS Watcher, TLAPS

Entry == [path : Paths, last_mtime : Mtimes, last_result : Results]

Written == 1 .. Len(stamp)

\* The variables have their types; the thread is at a file whenever it is awake.
TypeOK ==
  /\ disk \in [Paths -> [text : Texts, mtime : Nat] \cup {None}]
  /\ stamp \in Seq(Nat)
  /\ Len(stamp) <= MaxTexts
  /\ files \in Seq(Entry)
  /\ thread \in [at : {"asleep", "look", "compare", "compile", "publish"},
                 todo : Seq(Paths), mtime : Mtimes, result : Results]
  /\ thread.at # "asleep" => thread.todo # <<>>
  /\ latest \in Texts \cup {None}
  /\ registry \in Texts \cup {None}

\* Texts that are later in the order of the writes are not earlier by the clock, and
\* what lies on the disk carries the second it was written in.
DiskInv ==
  /\ \A i, j \in Written : i <= j => stamp[i] <= stamp[j]
  /\ \A p \in Paths : disk[p] # None =>
       disk[p].text \in Written /\ disk[p].mtime = stamp[disk[p].text]

\* What the thread carries from one look at the disk to the next is never newer than
\* the disk will be at that next look.
ThreadInv ==
  LET p == Head(thread.todo)
      text == thread.result.text
  IN /\ thread.mtime # None => thread.mtime <= Now
     /\ thread.at \in {"compare", "compile"} /\ thread.mtime # None /\ disk[p] # None =>
          disk[p].mtime >= thread.mtime
     /\ text # None => text \in Written
     /\ thread.at = "publish" =>
          /\ text # None /\ thread.mtime # None => stamp[text] >= thread.mtime
          /\ text # None /\ disk[p] # None => disk[p].text >= text
          /\ thread.result.status = "ok" => text # None /\ text \notin Broken

FilesInv ==
  \A i \in DOMAIN files : files[i].last_result.text # None =>
    files[i].last_result.text \in Written

IInv == TypeOK /\ DiskInv /\ ThreadInv /\ FilesInv /\ WhatIsShownIsCurrent

---------------------------------------------------------------------------------

LEMMA NoneIsNoText == None \notin Texts /\ None \notin Nat /\ None \notin [text : Texts, mtime : Nat]
  BY NoneAssumption DEF Texts

\* The clock of the disk is that of the last write, and no text is later.
LEMMA NowIsLast ==
  ASSUME TypeOK, DiskInv
  PROVE  Now \in Nat /\ \A i \in Written : stamp[i] <= Now /\ stamp[i] \in Nat
  <1>1. CASE stamp = <<>>
    BY <1>1 DEF Now, Written
  <1>2. CASE stamp # <<>>
    <2>1. Len(stamp) \in Written
      BY <1>2 DEF TypeOK, Written
    <2>2. Now = stamp[Len(stamp)] /\ \A i \in Written : i <= Len(stamp) /\ stamp[i] \in Nat
      BY <1>2 DEF Now, TypeOK, Written
    <2>3. QED
      BY <2>1, <2>2 DEF DiskInv
  <1>3. QED
    BY <1>1, <1>2

\* A file the thread is at is one of Paths.
LEMMA AtAFile ==
  ASSUME TypeOK, thread.at # "asleep"
  PROVE  Head(thread.todo) \in Paths /\ Tail(thread.todo) \in Seq(Paths)
  BY DEF TypeOK

\* Nothing is carried over to the next path.
LEMMA NextPathStartsAfresh ==
  ASSUME NEW todo \in Seq(Paths)
  PROVE  /\ NextPath(todo) \in [at : {"asleep", "look"}, todo : Seq(Paths),
                                mtime : {None}, result : {Pending}]
         /\ NextPath(todo).at # "asleep" => NextPath(todo).todo # <<>>
  BY DEF NextPath, Asleep

\* What a look at the text of a file finds.
LEMMA RecompiledType ==
  ASSUME TypeOK, DiskInv, NEW p \in Paths
  PROVE  /\ Recompiled(p) \in Results
         /\ disk[p] = None => Recompiled(p).text = None /\ Recompiled(p).status = "error"
         /\ disk[p] # None => /\ Recompiled(p).text = disk[p].text
                              /\ disk[p].text \in Texts \cap Written
                              /\ Recompiled(p).status = "ok" => disk[p].text \notin Broken
  BY DEF TypeOK, DiskInv, Recompiled, Results

---------------------------------------------------------------------------------
\* The steps

\* The thread is back before a file, or asleep, and only the disk is as it was.
LEMMA ThreadStartsAfresh ==
  ASSUME TypeOK, NEW todo \in Seq(Paths), thread' = NextPath(todo), UNCHANGED <<disk, stamp>>
  PROVE  /\ ThreadInv'
         /\ thread' \in [at : {"asleep", "look", "compare", "compile", "publish"},
                         todo : Seq(Paths), mtime : Mtimes, result : Results]
         /\ thread'.at # "asleep" => thread'.todo # <<>>
  <1>1. /\ thread' \in [at : {"asleep", "look"}, todo : Seq(Paths), mtime : {None}, result : {Pending}]
        /\ thread'.at # "asleep" => thread'.todo # <<>>
    BY NextPathStartsAfresh
  <1>2. ThreadInv'
    BY <1>1 DEF ThreadInv, Pending
  <1>3. QED
    BY <1>1, <1>2 DEF Mtimes, Results, Pending

LEMMA SaveStep ==
  ASSUME IInv, NEW p \in Paths, Save(p)
  PROVE  IInv'
  <1>1. PICK second \in {Now, Now + 1} :
          /\ stamp' = Append(stamp, second)
          /\ disk' = [disk EXCEPT ![p] = [text |-> Len(stamp) + 1, mtime |-> second]]
    BY DEF Save
  <1>2. /\ Len(stamp) < MaxTexts
        /\ UNCHANGED <<files, watches, thread, compiled, streams>>
    BY DEF Save
  <1>3. second \in Nat /\ second >= Now /\ \A i \in Written : stamp[i] <= second /\ stamp[i] \in Nat
    BY NowIsLast DEF IInv
  <1>4. /\ stamp' \in Seq(Nat) /\ Len(stamp') = Len(stamp) + 1 /\ Len(stamp) \in Nat
        /\ stamp'[Len(stamp) + 1] = second
        /\ \A i \in Written : stamp'[i] = stamp[i]
        /\ Written' = Written \cup {Len(stamp) + 1}
        /\ Now' = second
    BY <1>1, <1>3 DEF IInv, TypeOK, Written, Now
  <1>5. /\ \A q \in Paths : disk'[q] = IF q = p THEN [text |-> Len(stamp) + 1, mtime |-> second]
                                       ELSE disk[q]
        /\ [text |-> Len(stamp) + 1, mtime |-> second] \in [text : Texts, mtime : Nat]
    BY <1>1, <1>2, <1>3, <1>4, BoundAssumption DEF IInv, TypeOK, Texts
  <1>6. TypeOK'
    <2>1. disk' \in [Paths -> [text : Texts, mtime : Nat] \cup {None}]
      BY <1>1, <1>5 DEF IInv, TypeOK
    <2>2. QED
      BY <1>2, <1>4, <2>1, BoundAssumption DEF IInv, TypeOK, compiled
  <1>7. DiskInv'
    <2>1. ASSUME NEW i \in Written', NEW j \in Written', i <= j
          PROVE  stamp'[i] <= stamp'[j]
      <3>1. CASE j \in Written
        <4>1. i \in Written
          BY <1>4, <2>1, <3>1 DEF Written
        <4>2. QED
          BY <1>4, <2>1, <3>1, <4>1 DEF IInv, DiskInv
      <3>2. CASE j = Len(stamp) + 1
        BY <1>3, <1>4, <2>1, <3>2
      <3>3. QED
        BY <1>4, <3>1, <3>2
    <2>2. ASSUME NEW q \in Paths, disk'[q] # None
          PROVE  disk'[q].text \in Written' /\ disk'[q].mtime = stamp'[disk'[q].text]
      BY <1>4, <1>5, <2>2 DEF IInv, DiskInv
    <2>3. QED
      BY <2>1, <2>2 DEF DiskInv
  <1>8. ThreadInv'
    <2> DEFINE q == Head(thread.todo)
    <2>1. q' = q /\ UNCHANGED thread
      BY <1>2
    <2>2. thread.at # "asleep" => q \in Paths
      BY AtAFile DEF IInv
    <2>3. thread.mtime \in Mtimes /\ thread.result.text \in Texts \cup {None}
      BY DEF IInv, TypeOK, Results
    <2>4. thread.mtime # None => thread.mtime <= Now'
      BY <1>3, <1>4, <2>3, NowIsLast DEF IInv, ThreadInv, Mtimes
    <2>5. thread.at \in {"compare", "compile"} /\ thread.mtime # None /\ disk'[q] # None =>
            disk'[q].mtime >= thread.mtime
      BY <1>4, <1>5, <2>2, <2>3, <2>4 DEF IInv, ThreadInv, Mtimes
    <2>6. thread.result.text # None => thread.result.text \in Written'
      BY <1>4 DEF IInv, ThreadInv
    <2>7. thread.at = "publish" =>
            /\ thread.result.text # None /\ thread.mtime # None =>
                 stamp'[thread.result.text] >= thread.mtime
            /\ thread.result.text # None /\ disk'[q] # None => disk'[q].text >= thread.result.text
            /\ thread.result.status = "ok" =>
                 thread.result.text # None /\ thread.result.text \notin Broken
      <3>1. thread.at = "publish" /\ thread.result.text # None => thread.result.text \in Written
        BY DEF IInv, ThreadInv
      <3>2. \A i \in Written : Len(stamp) + 1 >= i
        BY <1>4 DEF Written
      <3>3. QED
        BY <1>4, <1>5, <2>2, <3>1, <3>2 DEF IInv, ThreadInv
    <2>8. QED
      BY <2>1, <2>4, <2>5, <2>6, <2>7 DEF ThreadInv
  <1>9. FilesInv' /\ WhatIsShownIsCurrent'
    BY <1>2, <1>4 DEF IInv, FilesInv, WhatIsShownIsCurrent, ShownIsNoOlderThanRecorded,
                      RegistryIsNoOlderThanCode, compiled
  <1>10. QED
    BY <1>6, <1>7, <1>8, <1>9 DEF IInv

LEMMA DeleteStep ==
  ASSUME IInv, NEW p \in Paths, Delete(p)
  PROVE  IInv'
  <1>1. /\ \A q \in Paths : disk'[q] = IF q = p THEN None ELSE disk[q]
        /\ disk' \in [Paths -> [text : Texts, mtime : Nat] \cup {None}]
        /\ UNCHANGED <<stamp, files, watches, thread, compiled, streams>>
    BY DEF Delete, IInv, TypeOK
  <1>2. TypeOK' /\ DiskInv'
    BY <1>1 DEF IInv, TypeOK, DiskInv, Written, compiled
  <1>3. ThreadInv'
    <2>1. thread.at # "asleep" => Head(thread.todo) \in Paths
      BY AtAFile DEF IInv
    <2>2. QED
      BY <1>1, <2>1 DEF IInv, ThreadInv, Written, Now
  <1>4. FilesInv' /\ WhatIsShownIsCurrent'
    BY <1>1 DEF IInv, FilesInv, Written, WhatIsShownIsCurrent, ShownIsNoOlderThanRecorded,
                RegistryIsNoOlderThanCode, compiled
  <1>5. QED
    BY <1>2, <1>3, <1>4 DEF IInv

\* Steps that leave the disk and the thread alone, and what was stored.
LEMMA DiskAndThreadStay ==
  ASSUME IInv, UNCHANGED <<disk_vars, thread>>
  PROVE  DiskInv' /\ ThreadInv' /\ Written' = Written
  BY DEF IInv, disk_vars, DiskInv, ThreadInv, Written, Now

LEMMA WatchStep ==
  ASSUME IInv, NEW p \in Paths, WatchFile(p) \/ Unwatch(p)
  PROVE  IInv'
  <1>1. UNCHANGED <<disk_vars, thread, compiled, streams>>
    BY DEF WatchFile, Unwatch
  <1>2. DiskInv' /\ ThreadInv' /\ Written' = Written
    BY <1>1, DiskAndThreadStay
  <1>3. /\ files' \in Seq(Entry)
        /\ \A i \in DOMAIN files' :
             \/ files'[i].last_result = Pending
             \/ \E j \in DOMAIN files : files'[i] = files[j]
    <2>1. CASE WatchFile(p)
      <3> DEFINE new == [path |-> p, last_mtime |-> None, last_result |-> Pending]
      <3>1. new \in Entry /\ new.last_result = Pending
        BY DEF Entry, Mtimes, Results, Pending
      <3>2. files' = Append(files, new) /\ files \in Seq(Entry)
        BY <2>1 DEF WatchFile, IInv, TypeOK
      <3> HIDE DEF new
      <3>3. /\ files' \in Seq(Entry)
            /\ \A i \in DOMAIN files' : files'[i] = new \/ (i \in DOMAIN files /\ files'[i] = files[i])
        BY <3>1, <3>2
      <3>4. QED
        BY <3>1, <3>3
    <2>2. CASE Unwatch(p)
      <3>1. PICK i \in DOMAIN files :
              files' = [j \in 1 .. Len(files) - 1 |-> files[IF j < i THEN j ELSE j + 1]]
        BY <2>2 DEF Unwatch
      <3>2. /\ DOMAIN files = 1 .. Len(files) /\ Len(files) \in Nat \ {0} /\ i \in Nat
            /\ \A j \in DOMAIN files : files[j] \in Entry
        BY <3>1 DEF IInv, TypeOK
      <3>3. \A j \in 1 .. Len(files) - 1 : (IF j < i THEN j ELSE j + 1) \in DOMAIN files
        BY <3>2
      <3>4. files' \in [1 .. Len(files) - 1 -> Entry]
        BY <3>1, <3>2, <3>3
      <3>5. files' \in Seq(Entry)
        BY <3>2, <3>4
      <3>6. QED
        BY <3>1, <3>3, <3>5
    <2>3. QED
      BY <2>1, <2>2
  <1>4. TypeOK'
    BY <1>1, <1>3 DEF IInv, TypeOK, disk_vars, compiled
  <1>5. FilesInv' /\ WhatIsShownIsCurrent'
    <2>1. UNCHANGED <<stamp, latest, registry>>
      BY <1>1 DEF disk_vars, compiled
    <2>2. FilesInv' /\ ShownIsNoOlderThanRecorded'
      BY <1>2, <1>3, <2>1 DEF IInv, FilesInv, Pending, WhatIsShownIsCurrent, ShownIsNoOlderThanRecorded
    <2>3. QED
      BY <2>1, <2>2 DEF IInv, WhatIsShownIsCurrent, RegistryIsNoOlderThanCode
  <1>6. QED
    BY <1>2, <1>4, <1>5 DEF IInv

LEMMA CompileStep ==
  ASSUME IInv, NEW text \in Texts, Compile(text)
  PROVE  IInv'
  <1>1. /\ latest' = text /\ registry' = text /\ text \notin Broken /\ text # None
        /\ UNCHANGED <<disk_vars, files, thread>>
    BY NoneIsNoText DEF Compile
  <1>2. DiskInv' /\ ThreadInv' /\ Written' = Written
    BY <1>1, DiskAndThreadStay
  <1>3. QED
    BY <1>1, <1>2 DEF IInv, TypeOK, disk_vars, FilesInv, WhatIsShownIsCurrent, Texts,
                      ShownIsNoOlderThanRecorded, RegistryIsNoOlderThanCode

\* Poll, Look, Compare and Recompile write nothing but the thread.
LEMMA LookingStep ==
  ASSUME IInv, Poll \/ Look \/ Compare \/ Recompile
  PROVE  IInv'
  <1>1. UNCHANGED <<disk_vars, files, compiled>>
    BY DEF Poll, Look, Compare, Recompile
  <1>2. /\ UNCHANGED <<disk, stamp, files, latest, registry>>
        /\ Written' = Written /\ Now' = Now
    BY <1>1 DEF disk_vars, compiled, Written, Now
  <1>3. DiskInv' /\ FilesInv' /\ WhatIsShownIsCurrent'
    BY <1>2 DEF IInv, DiskInv, FilesInv, WhatIsShownIsCurrent, ShownIsNoOlderThanRecorded,
                RegistryIsNoOlderThanCode
  <1> DEFINE Ats == {"asleep", "look", "compare", "compile", "publish"}
             ThreadType == thread' \in [at : Ats, todo : Seq(Paths), mtime : Mtimes, result : Results]
             p == Head(thread.todo)
  <1>4. /\ ThreadInv'
        /\ ThreadType
        /\ thread'.at # "asleep" => thread'.todo # <<>>
    <2>1. CASE Poll
      <3>1. [i \in DOMAIN files |-> files[i].path] \in Seq(Paths)
        <4>1. /\ files \in [1 .. Len(files) -> Entry] /\ Len(files) \in Nat
              /\ DOMAIN files = 1 .. Len(files)
          BY DEF IInv, TypeOK
        <4>0. \A e \in Entry : e.path \in Paths
          BY DEF Entry
        <4>2. [i \in DOMAIN files |-> files[i].path] \in [1 .. Len(files) -> Paths]
          BY <4>1, <4>0
        <4>3. QED
          BY <4>1, <4>2
      <3>2. QED
        BY <1>2, <2>1, <3>1, ThreadStartsAfresh DEF Poll, IInv
    <2>2. CASE Look
      <3>1. p \in Paths /\ thread' = [thread EXCEPT !.at = "compare", !.mtime = MtimeOf(p)]
        BY <2>2, AtAFile DEF Look, IInv
      <3>2. /\ MtimeOf(p) \in Mtimes
            /\ MtimeOf(p) # None => /\ disk[p] # None /\ MtimeOf(p) = disk[p].mtime
                                    /\ MtimeOf(p) \in Nat /\ MtimeOf(p) <= Now
        BY <3>1, NowIsLast, NoneIsNoText DEF MtimeOf, Mtimes, IInv, TypeOK, DiskInv
      <3>3. /\ ThreadType /\ thread'.at = "compare" /\ thread'.mtime = MtimeOf(p)
            /\ thread'.todo = thread.todo /\ thread'.result = thread.result
        BY <3>1, <3>2 DEF IInv, TypeOK
      <3>4. disk[p] # None /\ MtimeOf(p) # None => disk[p].mtime >= MtimeOf(p)
        BY <3>2
      <3>5. QED
        BY <1>2, <2>2, <3>2, <3>3, <3>4 DEF IInv, TypeOK, ThreadInv, Look
    <2>3. CASE Compare
      <3>1. /\ p \in Paths /\ Tail(thread.todo) \in Seq(Paths)
            /\ thread' = [thread EXCEPT !.at = "compile"] \/ thread' = NextPath(Tail(thread.todo))
        BY <2>3, AtAFile DEF Compare, IInv
      <3>2. CASE thread' = [thread EXCEPT !.at = "compile"]
        <4>1. /\ ThreadType /\ thread'.at = "compile" /\ thread'.mtime = thread.mtime
              /\ thread'.todo = thread.todo /\ thread'.result = thread.result
          BY <3>2 DEF IInv, TypeOK
        <4>2. QED
          BY <1>2, <2>3, <4>1 DEF IInv, TypeOK, ThreadInv, Compare
      <3>3. CASE thread' = NextPath(Tail(thread.todo))
        BY <1>2, <3>1, <3>3, ThreadStartsAfresh DEF IInv
      <3>4. QED
        BY <3>1, <3>2, <3>3
    <2>4. CASE Recompile
      <3>1. p \in Paths /\ thread' = [thread EXCEPT !.at = "publish", !.result = Recompiled(p)]
        BY <2>4, AtAFile DEF Recompile, IInv
      <3>2. Recompiled(p) \in Results
        BY <3>1, RecompiledType DEF IInv
      <3>3. /\ ThreadType /\ thread'.at = "publish" /\ thread'.mtime = thread.mtime
            /\ thread'.todo = thread.todo /\ thread'.result = Recompiled(p)
        BY <3>1, <3>2 DEF IInv, TypeOK
      <3>4. CASE disk[p] = None
        BY <1>2, <2>4, <3>1, <3>3, <3>4, RecompiledType DEF IInv, TypeOK, ThreadInv, Recompile
      <3>5. CASE disk[p] # None
        <4>1. /\ Recompiled(p).text = disk[p].text
              /\ disk[p].text \in Texts \cap Written /\ disk[p].text # None
              /\ Recompiled(p).status = "ok" => disk[p].text \notin Broken
              /\ disk[p].mtime = stamp[disk[p].text]
          BY <3>1, <3>5, RecompiledType, NoneIsNoText DEF IInv, DiskInv
        <4>2. thread.mtime # None => disk[p].mtime >= thread.mtime
          BY <2>4, <3>5 DEF Recompile, IInv, ThreadInv
        <4>3. disk[p].text >= disk[p].text
          BY <4>1 DEF Written
        <4>4. QED
          BY <1>2, <2>4, <3>3, <4>1, <4>2, <4>3 DEF IInv, TypeOK, ThreadInv, Recompile
      <3>6. QED
        BY <3>4, <3>5
    <2>5. QED
      BY <2>1, <2>2, <2>3, <2>4
  <1>5. TypeOK'
    BY <1>2, <1>4 DEF IInv, TypeOK
  <1>6. QED
    BY <1>3, <1>4, <1>5 DEF IInv

LEMMA PublishStep ==
  ASSUME IInv, Publish
  PROVE  IInv'
  <1> DEFINE p == Head(thread.todo)
             r == thread.result
  <1>1. /\ p \in Paths /\ Tail(thread.todo) \in Seq(Paths)
        /\ thread' = NextPath(Tail(thread.todo))
        /\ files' = Shown(p, thread.mtime, r)
        /\ Store(p, r)
        /\ UNCHANGED <<disk, stamp>>
    BY AtAFile DEF Publish, IInv, disk_vars
  <1>2. Written' = Written /\ DiskInv'
    BY <1>1 DEF IInv, DiskInv, Written
  <1>3. /\ ThreadInv'
        /\ thread' \in [at : {"asleep", "look", "compare", "compile", "publish"},
                        todo : Seq(Paths), mtime : Mtimes, result : Results]
        /\ thread'.at # "asleep" => thread'.todo # <<>>
    BY <1>1, ThreadStartsAfresh DEF IInv
  <1>4. thread.mtime \in Mtimes /\ r \in Results
    BY DEF IInv, TypeOK
  <1> DEFINE new == [path |-> p, last_mtime |-> thread.mtime, last_result |-> r]
  <1>5. /\ new \in Entry
        /\ files' \in Seq(Entry)
        /\ \A i \in DOMAIN files' : files'[i] = new \/ (i \in DOMAIN files /\ files'[i] = files[i])
    <2>1. /\ files \in [1 .. Len(files) -> Entry] /\ Len(files) \in Nat
          /\ DOMAIN files = 1 .. Len(files)
      BY DEF IInv, TypeOK
    <2>2. new \in Entry
      BY <1>1, <1>4 DEF Entry
    <2> HIDE DEF new
    <2>3. files' = [i \in DOMAIN files |-> IF files[i].path = p THEN new ELSE files[i]]
      BY <1>1 DEF Shown, new
    <2>4. files' \in [1 .. Len(files) -> Entry]
      BY <2>1, <2>2, <2>3
    <2>5. files' \in Seq(Entry)
      BY <2>1, <2>4
    <2>6. \A i \in DOMAIN files' : files'[i] = new \/ (i \in DOMAIN files /\ files'[i] = files[i])
      BY <2>1, <2>3
    <2>7. QED
      BY <2>2, <2>5, <2>6
  <1>6. /\ r.text # None => r.text \in Written
        /\ r.text # None /\ thread.mtime # None => stamp[r.text] >= thread.mtime
        /\ r.text # None /\ disk[p] # None => disk[p].text >= r.text
        /\ r.status = "ok" => r.text # None /\ r.text \notin Broken
    BY DEF IInv, ThreadInv, Publish
  <1>7. FilesInv' /\ ShownIsNoOlderThanRecorded'
    <2>1. ASSUME NEW i \in DOMAIN files', files'[i].last_result.text # None
          PROVE  /\ files'[i].last_result.text \in Written
                 /\ files'[i].last_mtime # None =>
                      stamp[files'[i].last_result.text] >= files'[i].last_mtime
      <3>1. CASE files'[i] = new
        BY <1>6, <2>1, <3>1
      <3>2. CASE i \in DOMAIN files /\ files'[i] = files[i]
        BY <2>1, <3>2 DEF IInv, FilesInv, WhatIsShownIsCurrent, ShownIsNoOlderThanRecorded
      <3>3. QED
        BY <1>5, <3>1, <3>2
    <2>2. QED
      BY <1>1, <1>2, <2>1 DEF FilesInv, ShownIsNoOlderThanRecorded
  <1>8. /\ latest' \in Texts \cup {None} /\ registry' \in Texts \cup {None}
        /\ RegistryIsNoOlderThanCode'
    <2>1. CASE r.status = "ok" /\ Recompiled(p).status = "ok"
      <3>1. latest' = r.text /\ registry' = disk[p].text
        BY <1>1, <2>1 DEF Store
      <3>2. /\ disk[p] # None /\ disk[p].text \in Texts /\ disk[p].text \notin Broken
            /\ disk[p].text # None
        BY <1>1, <2>1, RecompiledType, NoneIsNoText DEF IInv
      <3>3. r.text \in Texts /\ r.text # None /\ r.text \notin Broken /\ disk[p].text >= r.text
        BY <1>4, <1>6, <2>1, <3>2 DEF Results
      <3>4. QED
        BY <3>1, <3>2, <3>3 DEF RegistryIsNoOlderThanCode
    <2>2. CASE ~(r.status = "ok" /\ Recompiled(p).status = "ok")
      BY <1>1, <2>2 DEF Store, compiled, IInv, TypeOK, WhatIsShownIsCurrent, RegistryIsNoOlderThanCode
    <2>3. QED
      BY <2>1, <2>2
  <1>9. TypeOK'
    BY <1>1, <1>3, <1>5, <1>8 DEF IInv, TypeOK
  <1>10. QED
    BY <1>2, <1>3, <1>7, <1>8, <1>9 DEF IInv, WhatIsShownIsCurrent

LEMMA IInvStep ==
  ASSUME IInv, [Next]_vars
  PROVE  IInv'
  <1>1. ASSUME NEW c \in Clients,
               Connect(c) \/ Greet(c) \/ GreetFails(c) \/ Receive(c) \/ Hangup(c) \/ Leave(c)
        PROVE  UNCHANGED <<disk_vars, files, thread, compiled>>
    BY <1>1 DEF Connect, Greet, GreetFails, Receive, Hangup, Leave
  <1>2. ASSUME UNCHANGED <<disk_vars, files, thread, compiled>>
        PROVE  IInv'
    <2>1. DiskInv' /\ ThreadInv' /\ Written' = Written
      BY <1>2, DiskAndThreadStay
    <2>2. QED
      BY <1>2, <2>1 DEF IInv, TypeOK, disk_vars, compiled, FilesInv, WhatIsShownIsCurrent,
                        ShownIsNoOlderThanRecorded, RegistryIsNoOlderThanCode
  <1>3. CASE UNCHANGED vars
    BY <1>2, <1>3 DEF vars
  <1>4. QED
    BY <1>1, <1>2, <1>3, SaveStep, DeleteStep, WatchStep, CompileStep, LookingStep, PublishStep
       DEF Next, ThreadStep

\* What is shown for a file is never older than the mtime recorded with it, and the
\* registry parsed from a file never older than the code stored with it, however the
\* saves and deletions fall between the thread's looks.
THEOREM ShownCurrently == Spec => []WhatIsShownIsCurrent
  <1>1. Init => IInv
    <2>1. SUFFICES ASSUME Init PROVE IInv
      OBVIOUS
    <2>2. TypeOK
      BY <2>1, BoundAssumption DEF Init, TypeOK, Asleep, Mtimes, Results, Pending
    <2>3. DiskInv /\ ThreadInv /\ FilesInv /\ WhatIsShownIsCurrent
      BY <2>1 DEF Init, DiskInv, Written, ThreadInv, Asleep, Pending, FilesInv, WhatIsShownIsCurrent,
                  ShownIsNoOlderThanRecorded, RegistryIsNoOlderThanCode
    <2>4. QED
      BY <2>2, <2>3 DEF IInv
  <1>2. IInv /\ [Next]_vars => IInv'
    BY IInvStep
  <1>3. IInv => WhatIsShownIsCurrent
    BY DEF IInv
  <1>4. QED
    BY <1>1, <1>2, <1>3, PTL DEF Spec

---------------------------------------------------------------------------------
\* Event streams

\* The numbers after n, one after the other.
Run(s, n) == \A i \in 1 .. Len(s) : s[i] = n + i

LEMMA LongerRun ==
  ASSUME NEW s \in Seq(Nat), NEW n \in Nat, NEW e \in Nat, Run(s, n), e = n + Len(s) + 1
  PROVE  /\ Append(s, e) \in Seq(Nat)
         /\ n + Len(Append(s, e)) = e
         /\ Run(Append(s, e), n)
  <1> DEFINE t == Append(s, e)
  <1>1. /\ t \in Seq(Nat) /\ Len(t) = Len(s) + 1 /\ Len(s) \in Nat
        /\ \A i \in 1 .. Len(s) : t[i] = s[i]
        /\ t[Len(s) + 1] = e
    OBVIOUS
  <1>2. ASSUME NEW i \in 1 .. Len(t)
        PROVE  t[i] = n + i
    <2>1. CASE i \in 1 .. Len(s)
      BY <1>1, <2>1 DEF Run
    <2>2. CASE i \notin 1 .. Len(s)
      <3>1. i = Len(s) + 1
        BY <1>1, <1>2, <2>2
      <3>2. QED
        BY <1>1, <3>1
    <2>3. QED
      BY <2>1, <2>2
  <1>3. QED
    BY <1>1, <1>2 DEF Run

LEMMA ShorterRun ==
  ASSUME NEW s \in Seq(Nat), NEW n \in Nat, Run(s, n), s # <<>>
  PROVE  /\ Tail(s) \in Seq(Nat) /\ Head(s) \in Nat
         /\ Head(s) + Len(Tail(s)) = n + Len(s)
         /\ Run(Tail(s), Head(s))
  <1>1. /\ Tail(s) \in Seq(Nat) /\ Len(Tail(s)) = Len(s) - 1 /\ Len(s) \in Nat \ {0}
        /\ Head(s) = s[1]
        /\ \A i \in 1 .. Len(Tail(s)) : Tail(s)[i] = s[i + 1] /\ i + 1 \in 1 .. Len(s)
    OBVIOUS
  <1>2. Head(s) = n + 1
    BY <1>1 DEF Run
  <1>3. \A i \in 1 .. Len(Tail(s)) : Tail(s)[i] = n + (i + 1)
    BY <1>1 DEF Run
  <1>4. Run(Tail(s), Head(s))
    BY <1>1, <1>2, <1>3 DEF Run
  <1>5. QED
    BY <1>1, <1>2, <1>4

\* What StreamsHaveNoGaps says of one client.
NoGap(c) == Listening(c) => /\ Run(channel[c], seen[c])
                            /\ c \in sse_clients => seen[c] + Len(channel[c]) = events_total

LEMMA NoGapForEach ==
  ASSUME channel \in [Clients -> Seq(Nat)]
  PROVE  StreamsHaveNoGaps <=> \A c \in Clients : NoGap(c)
  <1>1. \A c \in Clients : DOMAIN channel[c] = 1 .. Len(channel[c])
    OBVIOUS
  <1>2. QED
    BY <1>1 DEF StreamsHaveNoGaps, NoGap, Run

\* A client that never connected has neither a channel nor a registration.
StreamInv ==
  /\ events_total \in Nat
  /\ channel \in [Clients -> Seq(Nat)]
  /\ seen \in [Clients -> Nat]
  /\ reader \in [Clients -> {"new", "greeting", "open", "leaving", "gone"}]
  /\ sse_clients \subseteq Clients
  /\ \A c \in Clients : reader[c] = "new" => channel[c] = <<>> /\ c \notin sse_clients
  /\ \A c \in Clients : NoGap(c)

\* Most steps are of one client and leave the others' streams as they are.
LEMMA OneStream ==
  ASSUME StreamInv, NEW c \in Clients, events_total' = events_total,
         NEW s \in Seq(Nat), channel' = [channel EXCEPT ![c] = s],
         NEW n \in Nat, seen' = [seen EXCEPT ![c] = n],
         NEW r \in {"greeting", "open", "leaving", "gone"}, reader' = [reader EXCEPT ![c] = r],
         sse_clients' \subseteq Clients,
         \A d \in Clients \ {c} : d \in sse_clients' <=> d \in sse_clients,
         r # "gone" => Run(s, n) /\ (c \in sse_clients' => n + Len(s) = events_total)
  PROVE  StreamInv'
  <1>1. /\ channel' \in [Clients -> Seq(Nat)] /\ seen' \in [Clients -> Nat]
        /\ reader' \in [Clients -> {"new", "greeting", "open", "leaving", "gone"}]
        /\ channel'[c] = s /\ seen'[c] = n /\ reader'[c] = r
    BY DEF StreamInv
  <1>2. \A d \in Clients \ {c} :
          channel'[d] = channel[d] /\ seen'[d] = seen[d] /\ reader'[d] = reader[d]
    BY DEF StreamInv
  <1>3. ASSUME NEW d \in Clients
        PROVE  /\ reader'[d] = "new" => channel'[d] = <<>> /\ d \notin sse_clients'
               /\ NoGap(d)'
    <2>1. CASE d = c
      BY <1>1, <2>1 DEF NoGap, Listening
    <2>2. CASE d # c
      BY <1>2, <2>2 DEF StreamInv, NoGap, Listening
    <2>3. QED
      BY <2>1, <2>2
  <1>4. QED
    BY <1>1, <1>3 DEF StreamInv

LEMMA ClientStep ==
  ASSUME StreamInv, NEW c \in Clients,
         Connect(c) \/ Greet(c) \/ GreetFails(c) \/ Receive(c) \/ Hangup(c) \/ Leave(c)
  PROVE  StreamInv'
  <1>1. /\ events_total' = events_total /\ events_total \in Nat
        /\ channel[c] \in Seq(Nat) /\ seen[c] \in Nat /\ sse_clients \subseteq Clients
        /\ Listening(c) => /\ Run(channel[c], seen[c])
                           /\ c \in sse_clients => seen[c] + Len(channel[c]) = events_total
    BY DEF StreamInv, NoGap, Connect, Greet, GreetFails, Receive, Hangup, Leave
  <1>2. /\ channel = [channel EXCEPT ![c] = channel[c]] /\ seen = [seen EXCEPT ![c] = seen[c]]
        /\ reader = [reader EXCEPT ![c] = reader[c]]
    BY DEF StreamInv
  <1>3. CASE Connect(c)
    <2>1. /\ reader' = [reader EXCEPT ![c] = "greeting"] /\ sse_clients' = sse_clients \cup {c}
          /\ seen' = [seen EXCEPT ![c] = events_total] /\ channel' = channel
          /\ channel[c] = <<>>
      BY <1>3 DEF Connect, StreamInv
    <2>2. Run(channel[c], events_total) /\ events_total + Len(channel[c]) = events_total
      BY <1>1, <2>1 DEF Run
    <2>3. QED
      BY <1>1, <1>2, <2>1, <2>2, OneStream
  <1>4. CASE Receive(c)
    <2>1. /\ reader' = reader /\ reader[c] = "open" /\ sse_clients' = sse_clients
          /\ Listening(c) /\ channel[c] # <<>>
          /\ seen' = [seen EXCEPT ![c] = Head(channel[c])]
          /\ channel' = [channel EXCEPT ![c] = Tail(channel[c])]
      BY <1>4 DEF Receive, Listening
    <2>2. /\ Tail(channel[c]) \in Seq(Nat) /\ Head(channel[c]) \in Nat
          /\ Head(channel[c]) + Len(Tail(channel[c])) = seen[c] + Len(channel[c])
          /\ Run(Tail(channel[c]), Head(channel[c]))
      BY <1>1, <2>1, ShorterRun
    <2>3. c \in sse_clients => Head(channel[c]) + Len(Tail(channel[c])) = events_total
      BY <1>1, <2>1, <2>2
    <2>4. QED
      BY <1>1, <1>2, <2>1, <2>2, <2>3, OneStream
  <1>5. CASE Greet(c) \/ Hangup(c)
    <2>1. PICK r \in {"open", "leaving"} : reader' = [reader EXCEPT ![c] = r]
      BY <1>5 DEF Greet, Hangup
    <2>2. UNCHANGED <<channel, seen, sse_clients>> /\ Listening(c)
      BY <1>5 DEF Greet, Hangup, Listening
    <2>3. QED
      BY <1>1, <1>2, <2>1, <2>2, OneStream
  <1>6. CASE GreetFails(c) \/ Leave(c)
    <2>1. /\ seen' = seen /\ reader' = [reader EXCEPT ![c] = "gone"]
          /\ channel' = [channel EXCEPT ![c] = <<>>]
          /\ sse_clients' = sse_clients \/ sse_clients' = sse_clients \ {c}
      BY <1>6 DEF GreetFails, Leave
    <2>2. <<>> \in Seq(Nat)
      OBVIOUS
    <2>3. QED
      BY <1>1, <1>2, <2>1, <2>2, OneStream
  <1>7. QED
    BY <1>3, <1>4, <1>5, <1>6

\* A broadcast reaches every client that stays registered.
LEMMA BroadcastStep ==
  ASSUME StreamInv, Broadcast, UNCHANGED <<reader, seen>>
  PROVE  StreamInv'
  <1>1. events_total' = events_total + 1 /\ events_total' \in Nat /\ events_total \in Nat
    BY DEF Broadcast, StreamInv
  <1>2. channel' = [c \in Clients |-> IF c \in sse_clients' THEN Append(channel[c], events_total + 1)
                                                           ELSE channel[c]]
    BY DEF Broadcast
  <1>3. ASSUME NEW c \in Clients
        PROVE  /\ channel'[c] \in Seq(Nat)
               /\ reader'[c] = "new" => channel'[c] = <<>> /\ c \notin sse_clients'
               /\ NoGap(c)'
    <2>1. channel[c] \in Seq(Nat) /\ seen[c] \in Nat
      BY DEF StreamInv
    <2>2. CASE c \in sse_clients'
      <3>1. /\ c \in sse_clients /\ Listening(c)
            /\ channel'[c] = Append(channel[c], events_total + 1)
        BY <1>2, <2>2 DEF Broadcast
      <3>2. Run(channel[c], seen[c]) /\ seen[c] + Len(channel[c]) = events_total
        BY <3>1 DEF StreamInv, NoGap
      <3>3. /\ channel'[c] \in Seq(Nat) /\ Run(channel'[c], seen[c])
            /\ seen[c] + Len(channel'[c]) = events_total + 1
        <4>1. events_total + 1 \in Nat /\ events_total + 1 = seen[c] + Len(channel[c]) + 1
          BY <1>1, <3>2
        <4>2. ASSUME NEW e \in Nat, e = events_total + 1
              PROVE  /\ Append(channel[c], e) \in Seq(Nat) /\ Run(Append(channel[c], e), seen[c])
                     /\ seen[c] + Len(Append(channel[c], e)) = e
          BY <2>1, <3>2, <4>1, <4>2, LongerRun
        <4>3. QED
          BY <3>1, <4>1, <4>2
      <3>4. reader'[c] # "new" /\ seen'[c] = seen[c]
        BY <3>1 DEF Listening
      <3>5. QED
        BY <1>1, <3>3, <3>4 DEF NoGap
    <2>3. CASE c \notin sse_clients'
      <3>1. channel'[c] = channel[c]
        BY <1>2, <2>3
      <3>2. QED
        BY <2>1, <2>3, <3>1 DEF StreamInv, NoGap, Listening
    <2>4. QED
      BY <2>2, <2>3
  <1>4. channel' \in [Clients -> Seq(Nat)]
    <2> DEFINE f(c) == IF c \in sse_clients' THEN Append(channel[c], events_total + 1) ELSE channel[c]
    <2>1. channel' = [c \in Clients |-> f(c)] /\ \A c \in Clients : f(c) = channel'[c]
      BY <1>2
    <2> HIDE DEF f
    <2>2. \A c \in Clients : f(c) \in Seq(Nat)
      BY <1>3, <2>1
    <2>3. QED
      BY <2>1, <2>2
  <1>5. sse_clients' \subseteq Clients /\ UNCHANGED <<reader, seen>>
    BY DEF Broadcast, StreamInv
  <1>6. QED
    BY <1>1, <1>3, <1>4, <1>5 DEF StreamInv

\* However fast a client reads, and whenever its connection is lost, its stream is an
\* unbroken run of the events from its registration on: it is cut off, never thinned.
THEOREM NoGaps == Spec => []StreamsHaveNoGaps
  <1>1. Init => StreamInv
    BY DEF Init, StreamInv, NoGap, Listening
  <1>2. StreamInv /\ [Next]_vars => StreamInv'
    <2> SUFFICES ASSUME StreamInv, [Next]_vars
                 PROVE  StreamInv'
      OBVIOUS
    <2>1. ASSUME UNCHANGED streams
          PROVE  StreamInv'
      BY <2>1 DEF streams, StreamInv, NoGap, Listening
    <2>2. ASSUME NEW p \in Paths, Save(p) \/ Delete(p) \/ WatchFile(p) \/ Unwatch(p)
          PROVE  UNCHANGED streams
      BY <2>2 DEF Save, Delete, WatchFile, Unwatch
    <2>3. ASSUME NEW text \in Texts, Compile(text)
          PROVE  UNCHANGED streams
      BY <2>3 DEF Compile
    <2>4. CASE Poll \/ Look \/ Compare \/ Recompile
      BY <2>1, <2>4 DEF Poll, Look, Compare, Recompile
    <2>5. CASE Publish
      BY <2>5, BroadcastStep DEF Publish
    <2>6. CASE UNCHANGED vars
      BY <2>1, <2>6 DEF vars
    <2>7. QED
      BY <2>1, <2>2, <2>3, <2>4, <2>5, <2>6, ClientStep DEF Next, ThreadStep
  <1>3. StreamInv => StreamsHaveNoGaps
    BY NoGapForEach DEF StreamInv
  <1>4. QED
    BY <1>1, <1>2, <1>3, PTL DEF Spec

==================================================================================
