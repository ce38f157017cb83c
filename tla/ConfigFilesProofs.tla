-------------------------- MODULE ConfigFilesProofs --------------------------
(***************************************************************************)
(* Proofs about AtomicWrite, for any files, texts, processes and inodes,   *)
(* and about ConfigFiles, whose commands are made of its steps.            *)
(***************************************************************************)
EXTENDS ConfigFiles, TLAPS

-----------------------------------------------------------------------------
(* One write of one file *)

\* What is known of an open write.
LEMMA OpenWriteFacts ==
  ASSUME WriteTypeOK, NEW p \in Procs, writer[p].stage # "none"
  PROVE  /\ writer[p].stage \in {"open", "filled"}
         /\ writer[p].file \in Files
         /\ writer[p].text \in Contents[writer[p].file]
         /\ writer[p].inode \in Inodes
         /\ writer[p].direct \in BOOLEAN
         /\ writer[p] \in OpenWrites(writer[p].file)
<1>1. WriterOK(p)
  BY DEF WriteTypeOK
<1>2. writer[p] # NotWriting
  BY DEF NotWriting
<1>3. PICK f \in Files : writer[p] \in OpenWrites(f)
  BY <1>1, <1>2 DEF WriterOK
<1> QED BY <1>3 DEF OpenWrites

LEMMA NotWritingIsNone == NotWriting.stage = "none"
  BY DEF NotWriting

LEMMA WriteInitIInv == WriteInit => WriteIInv
<1> SUFFICES ASSUME WriteInit PROVE WriteIInv
  OBVIOUS
<1> USE DEF WriteInit
<1>1. WriteTypeOK
  BY DEF WriteTypeOK, WriterOK
<1>2. WholeUnlessMet /\ TempIsNotTarget
  BY DEF WholeUnlessMet, IsWhole, TempIsNotTarget
<1>3. OneWriter /\ OwnsTemp
  BY DEF OneWriter, OwnsTemp, Writing, NotWriting
<1> QED BY <1>1, <1>2, <1>3 DEF WriteIInv

LEMMA OpenTempKeeps ==
  ASSUME WriteIInv, NEW p \in Procs, NEW f \in Files, NEW text \in Contents[f],
         OpenTemp(p, f, text)
  PROVE  WriteIInv'
<1> USE DEF WriteIInv
<1>1. PICK i \in Inodes :
        /\ OpenedAs(f, tmp[f], i)
        /\ tmp' = [tmp EXCEPT ![f] = i]
        /\ data' = [data EXCEPT ![f][i] = Empty]
        /\ writer' = [writer EXCEPT ![p] = Opened(f, text, i, FALSE)]
  BY DEF OpenTemp
<1>2. /\ writer[p] = NotWriting /\ target' = target
      /\ met' = met \cup Overlap(p, f)
  BY DEF OpenTemp
<1>3. /\ writer'[p] = Opened(f, text, i, FALSE)
      /\ \A q \in Procs \ {p} : writer'[q] = writer[q]
      /\ data'[f][i] = Empty
      /\ \A j \in Inodes \ {i} : data'[f][j] = data[f][j]
      /\ \A g \in Files \ {f} : data'[g] = data[g] /\ tmp'[g] = tmp[g]
      /\ tmp'[f] = i
  BY <1>1 DEF WriteTypeOK
<1>4. i # target[f] /\ i # None
  BY <1>1, ContentsAssumption DEF OpenedAs, Unused, TempIsNotTarget
<1>5. WriteTypeOK'
  <2>1. target' \in [Files -> Inodes \cup {None}] /\ tmp' \in [Files -> Inodes \cup {None}]
    BY <1>1, <1>2 DEF WriteTypeOK
  <2>2. \A g \in Files : data'[g] \in [Inodes -> {Empty, Half} \cup Contents[g]]
    BY <1>1 DEF WriteTypeOK
  <2>3. DOMAIN data' = Files /\ DOMAIN writer' = Procs
    BY <1>1 DEF WriteTypeOK
  <2>4. met' \subseteq Files
    BY <1>2 DEF Overlap, WriteTypeOK
  <2>5. WriterOK(p)'
    BY <1>3 DEF Opened, WriterOK, OpenWrites
  <2>6. \A q \in Procs \ {p} : WriterOK(q)'
    BY <1>3 DEF WriterOK, WriteTypeOK
  <2> QED BY <2>1, <2>2, <2>3, <2>4, <2>5, <2>6 DEF WriteTypeOK, WriterOK
<1>6. WholeUnlessMet'
  BY <1>2, <1>3, <1>4 DEF WholeUnlessMet, IsWhole, WriteTypeOK
<1>7. TempIsNotTarget'
  BY <1>2, <1>3, <1>4 DEF TempIsNotTarget
<1>8. \A q \in Procs \ {p} : Writing(q, f) => f \in met'
  BY <1>2 DEF Overlap
<1>9. OneWriter'
  BY <1>2, <1>3, <1>8 DEF OneWriter, Writing, Opened
<1>10. OwnsTemp'
  <2> SUFFICES ASSUME NEW q \in Procs, writer'[q].stage # "none", writer'[q].file \notin met'
               PROVE  /\ ~ writer'[q].direct
                      /\ tmp'[writer'[q].file] = writer'[q].inode
                      /\ data'[writer'[q].file][writer'[q].inode] =
                           IF writer'[q].stage = "open" THEN Empty ELSE writer'[q].text
    BY DEF OwnsTemp
  <2>1. CASE q = p
    BY <1>3, <2>1 DEF Opened
  <2>2. CASE q # p
    <3>1. writer'[q] = writer[q] /\ writer[q].file # f /\ writer[q].file \in Files
      BY <1>3, <1>8, <2>2, OpenWriteFacts DEF Writing
    <3> QED BY <1>2, <1>3, <2>2, <3>1 DEF OwnsTemp
  <2> QED BY <2>1, <2>2
<1> QED BY <1>5, <1>6, <1>7, <1>9, <1>10

LEMMA OpenTargetKeeps ==
  ASSUME WriteIInv, NEW p \in Procs, NEW f \in Files, NEW text \in Contents[f],
         OpenTarget(p, f, text)
  PROVE  WriteIInv'
<1> USE DEF WriteIInv
<1>1. PICK i \in Inodes :
        /\ OpenedAs(f, target[f], i)
        /\ target' = [target EXCEPT ![f] = i]
        /\ data' = [data EXCEPT ![f][i] = Empty]
        /\ writer' = [writer EXCEPT ![p] = Opened(f, text, i, TRUE)]
  BY DEF OpenTarget
<1>2. /\ writer[p] = NotWriting /\ tmp' = tmp
      /\ met' = met \cup {f}
  BY DEF OpenTarget
<1>3. /\ writer'[p] = Opened(f, text, i, TRUE)
      /\ \A q \in Procs \ {p} : writer'[q] = writer[q]
      /\ \A g \in Files \ {f} : data'[g] = data[g] /\ target'[g] = target[g]
      /\ target'[f] = i
  BY <1>1 DEF WriteTypeOK
<1>4. WriteTypeOK'
  <2>1. target' \in [Files -> Inodes \cup {None}] /\ tmp' \in [Files -> Inodes \cup {None}]
    BY <1>1, <1>2 DEF WriteTypeOK
  <2>2. \A g \in Files : data'[g] \in [Inodes -> {Empty, Half} \cup Contents[g]]
    BY <1>1 DEF WriteTypeOK
  <2>3. DOMAIN data' = Files /\ DOMAIN writer' = Procs /\ met' \subseteq Files
    BY <1>1, <1>2 DEF WriteTypeOK
  <2>4. WriterOK(p)'
    BY <1>3 DEF Opened, WriterOK, OpenWrites
  <2>5. \A q \in Procs \ {p} : WriterOK(q)'
    BY <1>3 DEF WriterOK, WriteTypeOK
  <2> QED BY <2>1, <2>2, <2>3, <2>4, <2>5 DEF WriteTypeOK, WriterOK
<1>5. WholeUnlessMet'
  BY <1>2, <1>3 DEF WholeUnlessMet, IsWhole
<1>6. TempIsNotTarget'
  BY <1>1, <1>2, <1>3 DEF TempIsNotTarget, OpenedAs, Unused
<1>7. OneWriter'
  BY <1>2, <1>3 DEF OneWriter, Writing, Opened
<1>8. OwnsTemp'
  <2> SUFFICES ASSUME NEW q \in Procs, writer'[q].stage # "none", writer'[q].file \notin met'
               PROVE  /\ ~ writer'[q].direct
                      /\ tmp'[writer'[q].file] = writer'[q].inode
                      /\ data'[writer'[q].file][writer'[q].inode] =
                           IF writer'[q].stage = "open" THEN Empty ELSE writer'[q].text
    BY DEF OwnsTemp
  <2>1. q # p
    BY <1>2, <1>3 DEF Opened
  <2>2. writer'[q] = writer[q] /\ writer[q].file # f /\ writer[q].file \in Files
    BY <1>2, <1>3, <2>1, OpenWriteFacts
  <2> QED BY <1>2, <1>3, <2>1, <2>2 DEF OwnsTemp
<1> QED BY <1>4, <1>5, <1>6, <1>7, <1>8

LEMMA FillKeeps ==
  ASSUME WriteIInv, NEW p \in Procs, Fill(p)
  PROVE  WriteIInv'
<1> DEFINE w == writer[p]
           f == w.file
           i == w.inode
<1> USE DEF WriteIInv
<1>1. PICK new \in Overlay(data[f][i], w.text) : data' = [data EXCEPT ![f][i] = new]
  BY DEF Fill
<1>2. /\ w.stage = "open" /\ UNCHANGED << target, tmp, met >>
      /\ writer' = [writer EXCEPT ![p] = IF w.direct THEN NotWriting
                                         ELSE [w EXCEPT !.stage = "filled"]]
  BY DEF Fill
<1>3. /\ f \in Files /\ i \in Inodes /\ w.text \in Contents[f] /\ w.direct \in BOOLEAN
  BY <1>2, OpenWriteFacts
<1>4. /\ \A q \in Procs \ {p} : writer'[q] = writer[q]
      /\ data'[f][i] = new
      /\ \A j \in Inodes \ {i} : data'[f][j] = data[f][j]
      /\ \A g \in Files \ {f} : data'[g] = data[g]
      /\ writer'[p] = IF w.direct THEN NotWriting ELSE [w EXCEPT !.stage = "filled"]
  BY <1>1, <1>2, <1>3 DEF WriteTypeOK
<1>5. new \in {Empty, Half} \cup Contents[f]
  BY <1>3 DEF Overlay
<1>6. f \in met \/ (tmp[f] = i /\ i # target[f] /\ new = w.text /\ ~ w.direct)
  <2> SUFFICES ASSUME f \notin met
               PROVE  tmp[f] = i /\ i # target[f] /\ new = w.text /\ ~ w.direct
    OBVIOUS
  <2>1. ~ w.direct /\ tmp[f] = i /\ data[f][i] = Empty
    BY <1>2 DEF OwnsTemp
  <2>2. i # target[f]
    BY <1>3, <2>1, ContentsAssumption DEF TempIsNotTarget
  <2> QED BY <2>1, <2>2 DEF Overlay
<1>7. WriteTypeOK'
  <2>1. \A g \in Files : data'[g] \in [Inodes -> {Empty, Half} \cup Contents[g]]
    BY <1>1, <1>3, <1>5 DEF WriteTypeOK
  <2>2. DOMAIN data' = Files /\ DOMAIN writer' = Procs
    BY <1>1, <1>2 DEF WriteTypeOK
  <2>3. WriterOK(p)'
    <3>1. CASE w.direct
      BY <1>4, <3>1 DEF WriterOK
    <3>2. CASE ~ w.direct
      <4>1. w \in OpenWrites(f)
        BY <1>2, OpenWriteFacts
      <4>2. writer'[p] \in OpenWrites(f)
        BY <1>4, <3>2, <4>1 DEF OpenWrites
      <4> QED BY <1>3, <4>2 DEF WriterOK
    <3> QED BY <3>1, <3>2
  <2>4. \A q \in Procs \ {p} : WriterOK(q)'
    BY <1>4 DEF WriterOK, WriteTypeOK
  <2> QED BY <1>2, <2>1, <2>2, <2>3, <2>4 DEF WriteTypeOK, WriterOK
<1>8. WholeUnlessMet'
  BY <1>2, <1>4, <1>6 DEF WholeUnlessMet, IsWhole, WriteTypeOK
<1>9. TempIsNotTarget'
  BY <1>2 DEF TempIsNotTarget
<1>10. \A q \in Procs, g \in Files : Writing(q, g)' => Writing(q, g)
  <2>1. w \in OpenWrites(f)
    BY <1>2, OpenWriteFacts
  <2>2. [w EXCEPT !.stage = "filled"].file = f
    BY <2>1 DEF OpenWrites
  <2> QED BY <1>2, <1>4, <2>2, NotWritingIsNone DEF Writing
<1>11. OneWriter'
  BY <1>2, <1>10 DEF OneWriter
<1>12. OwnsTemp'
  <2> SUFFICES ASSUME NEW q \in Procs, writer'[q].stage # "none", writer'[q].file \notin met'
               PROVE  /\ ~ writer'[q].direct
                      /\ tmp'[writer'[q].file] = writer'[q].inode
                      /\ data'[writer'[q].file][writer'[q].inode] =
                           IF writer'[q].stage = "open" THEN Empty ELSE writer'[q].text
    BY DEF OwnsTemp
  <2>1. CASE q = p
    <3>1. ~ w.direct /\ writer'[p] = [w EXCEPT !.stage = "filled"]
      BY <1>3, <1>4, <2>1, NotWritingIsNone
    <3>2. /\ writer'[p].file = f /\ writer'[p].inode = i /\ writer'[p].text = w.text
          /\ writer'[p].direct = w.direct /\ writer'[p].stage = "filled"
      <4>1. w \in OpenWrites(f)
        BY <1>2, OpenWriteFacts
      <4> QED BY <3>1, <4>1 DEF OpenWrites
    <3> QED BY <1>2, <1>4, <1>6, <2>1, <3>1, <3>2
  <2>2. CASE q # p
    <3>1. writer'[q] = writer[q] /\ writer[q].file \in Files
      BY <1>4, <2>2, OpenWriteFacts
    <3>2. writer[q].file # f
      BY <1>2, <1>3, <2>2, <3>1 DEF OneWriter, Writing
    <3> QED BY <1>2, <1>4, <3>1, <3>2 DEF OwnsTemp
  <2> QED BY <2>1, <2>2
<1> QED BY <1>7, <1>8, <1>9, <1>11, <1>12

\* A step that only takes p out of its write.
LEMMA WriterLeaves ==
  ASSUME WriteIInv, NEW p \in Procs, writer[p].stage # "none",
         writer' = [writer EXCEPT ![p] = NotWriting], met' = met
  PROVE  /\ DOMAIN writer' = Procs /\ \A q \in Procs : WriterOK(q)'
         /\ OneWriter'
         /\ \A q \in Procs :
              writer'[q].stage # "none" /\ writer'[q].file \notin met =>
                /\ q # p /\ writer'[q] = writer[q]
                /\ writer[q].file \in Files /\ writer[q].file # writer[p].file
<1> USE DEF WriteIInv
<1>1. writer'[p] = NotWriting /\ \A q \in Procs \ {p} : writer'[q] = writer[q]
  BY DEF WriteTypeOK
<1>2. DOMAIN writer' = Procs /\ WriterOK(p)' /\ \A q \in Procs \ {p} : WriterOK(q)'
  BY <1>1 DEF WriteTypeOK, WriterOK
<1>3. OneWriter'
  BY <1>1, NotWritingIsNone DEF OneWriter, Writing
<1>4. ASSUME NEW q \in Procs, writer'[q].stage # "none", writer'[q].file \notin met
      PROVE  /\ q # p /\ writer'[q] = writer[q]
             /\ writer[q].file \in Files /\ writer[q].file # writer[p].file
  <2>1. q # p /\ writer'[q] = writer[q]
    BY <1>1, <1>4, NotWritingIsNone
  <2>2. writer[q].file \in Files
    BY <1>4, <2>1, OpenWriteFacts
  <2> QED BY <1>4, <2>1, <2>2 DEF OneWriter, Writing
<1> QED BY <1>1, <1>2, <1>3, <1>4

LEMMA PublishKeeps ==
  ASSUME WriteIInv, NEW p \in Procs, Publish(p)
  PROVE  WriteIInv'
<1> DEFINE w == writer[p]
           f == w.file
           kept == {tmp[f]} \cup {writer[q].inode : q \in {r \in Procs : Writing(r, f)}}
<1> USE DEF WriteIInv
<1>1. /\ w.stage = "filled" /\ tmp[f] # None /\ met' = met
      /\ target' = [target EXCEPT ![f] = tmp[f]]
      /\ tmp' = [tmp EXCEPT ![f] = None]
      /\ data' = [data EXCEPT ![f] = [i \in Inodes |-> IF i \in kept THEN @[i] ELSE Empty]]
      /\ writer' = [writer EXCEPT ![p] = NotWriting]
  BY DEF Publish
<1>2. f \in Files /\ w.inode \in Inodes /\ w.text \in Contents[f]
  BY <1>1, OpenWriteFacts
<1>3. tmp[f] \in Inodes
  BY <1>1, <1>2 DEF WriteTypeOK
<1>4. /\ target'[f] = tmp[f] /\ tmp'[f] = None
      /\ data'[f] = [i \in Inodes |-> IF i \in kept THEN data[f][i] ELSE Empty]
      /\ \A g \in Files \ {f} : data'[g] = data[g] /\ target'[g] = target[g] /\ tmp'[g] = tmp[g]
  BY <1>1, <1>2 DEF WriteTypeOK
<1>5. data'[f][tmp[f]] = data[f][tmp[f]]
  BY <1>3, <1>4
<1>6. WriteTypeOK'
  <2>1. target' \in [Files -> Inodes \cup {None}] /\ tmp' \in [Files -> Inodes \cup {None}]
    BY <1>1, <1>2, <1>3 DEF WriteTypeOK
  <2>2. data'[f] \in [Inodes -> {Empty, Half} \cup Contents[f]]
    BY <1>2, <1>4 DEF WriteTypeOK
  <2>3. \A g \in Files : data'[g] \in [Inodes -> {Empty, Half} \cup Contents[g]]
    BY <1>4, <2>2 DEF WriteTypeOK
  <2>4. DOMAIN data' = Files
    BY <1>1 DEF WriteTypeOK
  <2>5. DOMAIN writer' = Procs /\ \A q \in Procs : WriterOK(q)'
    BY <1>1, WriterLeaves
  <2> QED BY <1>1, <2>1, <2>3, <2>4, <2>5 DEF WriteTypeOK
<1>7. WholeUnlessMet'
  <2> SUFFICES ASSUME NEW g \in Files, g \notin met PROVE IsWhole(g)'
    BY <1>1 DEF WholeUnlessMet
  <2>1. CASE g = f
    <3>1. data[f][tmp[f]] = w.text
      BY <1>1, <2>1 DEF OwnsTemp
    <3> QED BY <1>2, <1>4, <1>5, <2>1, <3>1, ContentsAssumption DEF IsWhole
  <2>2. CASE g # f
    BY <1>4, <2>2 DEF WholeUnlessMet, IsWhole
  <2> QED BY <2>1, <2>2
<1>8. TempIsNotTarget'
  BY <1>4 DEF TempIsNotTarget
<1>9. OwnsTemp'
  <2> SUFFICES ASSUME NEW q \in Procs, writer'[q].stage # "none", writer'[q].file \notin met'
               PROVE  /\ ~ writer'[q].direct
                      /\ tmp'[writer'[q].file] = writer'[q].inode
                      /\ data'[writer'[q].file][writer'[q].inode] =
                           IF writer'[q].stage = "open" THEN Empty ELSE writer'[q].text
    BY DEF OwnsTemp
  <2>1. /\ writer'[q] = writer[q]
        /\ writer[q].file \in Files /\ writer[q].file # f
    BY <1>1, WriterLeaves
  <2>2. /\ data'[writer[q].file] = data[writer[q].file]
        /\ tmp'[writer[q].file] = tmp[writer[q].file]
    BY <1>4, <2>1
  <2>3. writer[q].stage # "none" /\ writer[q].file \notin met
    BY <1>1, <2>1
  <2> QED BY <2>1, <2>2, <2>3 DEF OwnsTemp
<1>10. OneWriter'
  BY <1>1, WriterLeaves
<1> QED BY <1>6, <1>7, <1>8, <1>9, <1>10

LEMMA PublishFailsKeeps ==
  ASSUME WriteIInv, NEW p \in Procs, PublishFails(p)
  PROVE  WriteIInv'
<1> USE DEF WriteIInv
<1>1. /\ writer[p].stage = "filled" /\ UNCHANGED << target, tmp, data, met >>
      /\ writer' = [writer EXCEPT ![p] = NotWriting]
  BY DEF PublishFails
<1>2. WriteTypeOK'
  BY <1>1, WriterLeaves DEF WriteTypeOK
<1>3. WholeUnlessMet' /\ TempIsNotTarget'
  BY <1>1 DEF WholeUnlessMet, IsWhole, TempIsNotTarget
<1>4. OwnsTemp'
  BY <1>1, WriterLeaves DEF OwnsTemp
<1> QED BY <1>1, <1>2, <1>3, <1>4, WriterLeaves

LEMMA DieKeeps ==
  ASSUME WriteIInv, NEW p \in Procs, Die(p)
  PROVE  WriteIInv'
<1> DEFINE w == writer[p]
           f == w.file
           i == w.inode
<1> USE DEF WriteIInv
<1>1. /\ w # NotWriting /\ UNCHANGED << target, tmp, met >>
      /\ data' = IF w.stage = "open" THEN [data EXCEPT ![f][i] = Half] ELSE data
      /\ writer' = [writer EXCEPT ![p] = NotWriting]
  BY DEF Die
<1>2. w.stage # "none"
  BY <1>1 DEF WriteTypeOK, WriterOK, OpenWrites
<1>3. f \in Files /\ i \in Inodes
  BY <1>2, OpenWriteFacts
<1>4. /\ \A g \in Files \ {f} : data'[g] = data[g]
      /\ \A j \in Inodes \ {i} : data'[f][j] = data[f][j]
  BY <1>1, <1>3 DEF WriteTypeOK
<1>5. WriteTypeOK'
  <2>1. \A g \in Files : data'[g] \in [Inodes -> {Empty, Half} \cup Contents[g]]
    BY <1>1, <1>3 DEF WriteTypeOK
  <2>2. DOMAIN data' = Files
    BY <1>1 DEF WriteTypeOK
  <2> QED BY <1>1, <1>2, <2>1, <2>2, WriterLeaves DEF WriteTypeOK
<1>6. f \in met \/ target[f] = None \/ target[f] # i
  BY <1>2, <1>3, ContentsAssumption DEF OwnsTemp, TempIsNotTarget
<1>7. WholeUnlessMet'
  <2> SUFFICES ASSUME NEW g \in Files, g \notin met PROVE IsWhole(g)'
    BY <1>1 DEF WholeUnlessMet
  <2>1. CASE g = f
    BY <1>1, <1>3, <1>4, <1>6, <2>1 DEF WholeUnlessMet, IsWhole, WriteTypeOK
  <2>2. CASE g # f
    BY <1>1, <1>4, <2>2 DEF WholeUnlessMet, IsWhole
  <2> QED BY <2>1, <2>2
<1>8. TempIsNotTarget'
  BY <1>1 DEF TempIsNotTarget
<1>9. OwnsTemp'
  <2> SUFFICES ASSUME NEW q \in Procs, writer'[q].stage # "none", writer'[q].file \notin met'
               PROVE  /\ ~ writer'[q].direct
                      /\ tmp'[writer'[q].file] = writer'[q].inode
                      /\ data'[writer'[q].file][writer'[q].inode] =
                           IF writer'[q].stage = "open" THEN Empty ELSE writer'[q].text
    BY DEF OwnsTemp
  <2>1. /\ writer'[q] = writer[q]
        /\ writer[q].file \in Files /\ writer[q].file # f
    BY <1>1, <1>2, WriterLeaves
  <2> QED BY <1>1, <1>4, <2>1 DEF OwnsTemp
<1>10. OneWriter'
  BY <1>1, <1>2, WriterLeaves
<1> QED BY <1>5, <1>7, <1>8, <1>9, <1>10

LEMMA WriteNextIInv == WriteIInv /\ [WriteNext]_writeVars => WriteIInv'
<1> SUFFICES ASSUME WriteIInv, [WriteNext]_writeVars PROVE WriteIInv'
  OBVIOUS
<1>1. ASSUME NEW p \in Procs, NEW f \in Files, NEW text \in Contents[f],
             OpenTemp(p, f, text) \/ OpenTarget(p, f, text)
      PROVE  WriteIInv'
  BY <1>1, OpenTempKeeps, OpenTargetKeeps
<1>2. ASSUME NEW p \in Procs, Fill(p) \/ Publish(p) \/ PublishFails(p) \/ Die(p)
      PROVE  WriteIInv'
  BY <1>2, FillKeeps, PublishKeeps, PublishFailsKeeps, DieKeeps
<1>3. CASE UNCHANGED writeVars
  BY <1>3 DEF writeVars, WriteIInv, WriteTypeOK, WriterOK, WholeUnlessMet, IsWhole,
     OneWriter, Writing, OwnsTemp, TempIsNotTarget
<1> QED BY <1>1, <1>2, <1>3 DEF WriteNext

-----------------------------------------------------------------------------
(* The commands *)

LEMMA InitTypeOK == Init => TypeOK
<1> SUFFICES ASSUME Init PROVE TypeOK
  OBVIOUS
<1>1. WriteTypeOK
  BY WriteInitIInv DEF Init, WriteIInv
<1>2. NoCommand \in Commands /\ CommandOK(NoCommand)
  BY DEF NoCommand, Commands, CommandOK
<1> QED BY <1>1, <1>2, ConfigAssumption DEF Init, TypeOK

\* What a command writes is what its file may hold.
LEMMA BundledIsContent ==
  ASSUME NEW f \in Files, f # "mounts"
  PROVE  Bundled[f] \in Contents[f]
<1>1. CASE f = "profiles"
  BY <1>1, ConfigAssumption DEF Bundled, ConfigContents, ProfileChoices
<1>2. CASE f = "harnesses"
  BY <1>2, ConfigAssumption DEF Bundled, ConfigContents
<1>3. CASE f = "presets"
  BY <1>3, ConfigAssumption DEF Bundled, ConfigContents
<1> QED BY <1>1, <1>2, <1>3, ConfigAssumption DEF ConfigFileNames

LEMMA PresetsAreContent ==
  ASSUME NEW profiles \in ProfileChoices \cup {{}}, NEW mounts \in MountChoices,
         NEW presets \in PresetChoices(profiles, mounts)
  PROVE  presets \in Contents["presets"]
<1>1. profiles \subseteq BundledProfiles \cup UserProfiles
  BY DEF ProfileChoices
<1>2. presets \in PresetChoices(BundledProfiles \cup UserProfiles, mounts)
  BY <1>1 DEF PresetChoices
<1> QED BY <1>2, ConfigAssumption DEF ConfigContents

\* Every step of a command is a step of AtomicWrite or none of its steps.
LEMMA NextIsWriteStep == TypeOK /\ [Next]_vars => [WriteNext]_writeVars
<1> SUFFICES ASSUME TypeOK, [Next]_vars PROVE [WriteNext]_writeVars
  OBVIOUS
<1> USE ConfigAssumption DEF TypeOK
<1>1. ASSUME NEW p \in Procs, NEW f \in Files, NEW text \in Contents[f],
             OpenTemp(p, f, text) \/ OpenTarget(p, f, text)
      PROVE  WriteNext
  BY <1>1 DEF WriteNext
<1>2. ASSUME NEW p \in Procs, Fill(p) \/ Publish(p) \/ PublishFails(p) \/ Die(p)
      PROVE  WriteNext
  BY <1>2 DEF WriteNext
<1>3. ASSUME NEW p \in Procs, NEW forced \in BOOLEAN, BeginWizard(p, forced)
      PROVE  UNCHANGED writeVars
  BY <1>3 DEF BeginWizard, Begin
<1>4. ASSUME NEW p \in Procs, WizardWritesProfiles(p) PROVE WriteNext
  <2>1. "profiles" \in Files /\ Contents["profiles"] = ProfileChoices
    BY DEF ConfigFileNames, ConfigContents
  <2> QED BY <1>1, <1>4, <2>1 DEF WizardWritesProfiles
<1>5. ASSUME NEW p \in Procs, WizardWritesMounts(p) PROVE WriteNext
  <2>1. "mounts" \in Files /\ MountChoices \subseteq Contents["mounts"]
    BY DEF ConfigFileNames, ConfigContents, MountChoices
  <2> QED BY <1>1, <1>5, <2>1 DEF WizardWritesMounts
<1>6. ASSUME NEW p \in Procs, WizardWritesHarnesses(p) PROVE WriteNext
  <2>1. "harnesses" \in Files /\ WizardHarnesses \in Contents["harnesses"]
    BY DEF ConfigFileNames, ConfigContents
  <2> QED BY <1>1, <1>6, <2>1 DEF WizardWritesHarnesses
<1>7. ASSUME NEW p \in Procs, WizardWritesPresets(p) PROVE WriteNext
  <2>1. "presets" \in Files
    BY DEF ConfigFileNames
  <2>2. cmd[p].profiles \in ProfileChoices \cup {{}} /\ cmd[p].mounts \in MountChoices
    BY <1>7 DEF WizardWritesPresets, Wizard, Commands, CommandOK
  <2> QED BY <1>1, <1>7, <2>1, <2>2, PresetsAreContent DEF WizardWritesPresets
<1>8. ASSUME NEW p \in Procs, NEW name \in UserMounts, BeginAdd(p, name)
      PROVE  UNCHANGED writeVars
  BY <1>8 DEF BeginAdd, Begin
<1>9. ASSUME NEW p \in Procs, AddWrites(p) PROVE WriteNext
  <2>1. "mounts" \in Files /\ Contents["mounts"] = SUBSET (UserMounts \cup WizardMounts)
    BY DEF ConfigFileNames, ConfigContents
  <2>2. Added(cmd[p].mounts, cmd[p].name) \in Contents["mounts"]
    BY <1>9, <2>1 DEF AddWrites, Commands, CommandOK, Added
  <2> QED BY <1>1, <1>9, <2>1, <2>2 DEF AddWrites
<1>10. ASSUME NEW p \in Procs, NEW f \in Files, NEW forced \in BOOLEAN, BeginInit(p, f, forced)
       PROVE  UNCHANGED writeVars
  BY <1>10 DEF BeginInit, Begin
<1>11. ASSUME NEW p \in Procs, InitWrites(p) PROVE WriteNext
  <2>1. cmd[p].at \in Files /\ cmd[p].at # "mounts"
    BY <1>11 DEF InitWrites, Over, Commands, CommandOK
  <2> QED BY <1>1, <1>11, <2>1, BundledIsContent DEF InitWrites
<1>12. ASSUME NEW p \in Procs, Filled(p) \/ Written(p) \/ Lost(p) \/ Dies(p) PROVE WriteNext
  BY <1>2, <1>12 DEF Filled, Written, Lost, Dies
<1>13. ASSUME NEW p \in Procs, Interrupted(p) PROVE UNCHANGED writeVars
  BY <1>13 DEF Interrupted
<1>14. CASE UNCHANGED vars
  BY <1>14 DEF vars, writeVars
<1> QED
  BY <1>3, <1>4, <1>5, <1>6, <1>7, <1>8, <1>9, <1>10, <1>11, <1>12, <1>13, <1>14 DEF Next

CommandsOK == cmd \in [Procs -> Commands] /\ \A p \in Procs : CommandOK(cmd[p])

LEMMA NoCommandOK == NoCommand \in Commands /\ CommandOK(NoCommand)
  BY DEF NoCommand, Commands, CommandOK

LEMMA BeginTyped ==
  ASSUME TypeOK, NEW p \in Procs, NEW c \in Commands, CommandOK(c), Begin(p, c)
  PROVE  CommandsOK' /\ commands' \in 0 .. MaxCommands
<1> USE DEF TypeOK
<1>1. commands' \in 0 .. MaxCommands
  BY ConfigAssumption DEF Begin
<1>2. ASSUME NEW alone \in BOOLEAN
      PROVE  LET d == [c EXCEPT !.alone = alone] IN d \in Commands /\ CommandOK(d)
  BY DEF Commands, CommandOK
<1>3. ASSUME NEW q \in Procs
      PROVE  LET d == [cmd[q] EXCEPT !.alone = FALSE] IN d \in Commands /\ CommandOK(d)
  BY DEF Commands, CommandOK
<1>4. cmd' = [q \in Procs |->
                IF q = p THEN [c EXCEPT !.alone = \A r \in Procs \ {p} : Over(r)]
                ELSE IF Over(q) THEN NoCommand
                ELSE [cmd[q] EXCEPT !.alone = FALSE]]
  BY DEF Begin
<1>5. ASSUME NEW q \in Procs PROVE cmd'[q] \in Commands /\ CommandOK(cmd'[q])
  <2>1. CASE q = p
    <3>1. (\A r \in Procs \ {p} : Over(r)) \in BOOLEAN
      OBVIOUS
    <3> QED BY <1>2, <1>4, <2>1, <3>1
  <2>2. CASE q # p /\ Over(q)
    BY <1>4, <2>2, NoCommandOK
  <2>3. CASE q # p /\ ~ Over(q)
    BY <1>3, <1>4, <2>3
  <2> QED BY <2>1, <2>2, <2>3
<1> QED BY <1>1, <1>4, <1>5 DEF CommandsOK

\* A step that changes one command to another that is one.
LEMMA CommandTyped ==
  ASSUME TypeOK, NEW p \in Procs, NEW c \in Commands, CommandOK(c),
         cmd' = [cmd EXCEPT ![p] = c], commands' = commands
  PROVE  CommandsOK' /\ commands' \in 0 .. MaxCommands
  BY DEF TypeOK, CommandsOK

LEMMA GoOnTyped ==
  ASSUME TypeOK, NEW p \in Procs, NEW at, GoOn(p, at),
         at = "end" \/ (cmd[p].kind = "wizard" /\ at \in ConfigFileNames)
  PROVE  CommandsOK' /\ commands' \in 0 .. MaxCommands
<1> USE DEF TypeOK
<1>1. CASE at = "end"
  <2>1. Ended(p) \in Commands /\ CommandOK(Ended(p))
    BY DEF Ended, NoCommand, Commands, CommandOK, MountChoices
  <2> QED BY <1>1, <2>1, CommandTyped DEF GoOn
<1>2. CASE at # "end"
  <2> DEFINE c == [cmd[p] EXCEPT !.at = at]
  <2>1. c \in Commands /\ CommandOK(c)
    BY <1>2 DEF Commands, CommandOK
  <2>2. cmd' = [cmd EXCEPT ![p] = c] /\ commands' = commands
    BY <1>2 DEF GoOn
  <2> QED BY <2>1, <2>2, CommandTyped
<1> QED BY <1>1, <1>2

\* Whoever writes has a command, so that a write that ends moves a command on.
WritersHaveCommands == \A p \in Procs : writer[p] # NotWriting => ~ Over(p)

LEMMA CommandsKept ==
  ASSUME TypeOK, WritersHaveCommands, [Next]_vars
  PROVE  CommandsOK' /\ commands' \in 0 .. MaxCommands
<1> DEFINE Goal == CommandsOK' /\ commands' \in 0 .. MaxCommands
<1> USE DEF TypeOK
<1>1. ASSUME NEW p \in Procs, NEW forced \in BOOLEAN, BeginWizard(p, forced) PROVE Goal
  <2> DEFINE c == [NoCommand EXCEPT !.kind = "wizard", !.at = "profiles"]
  <2>1. c \in Commands /\ CommandOK(c)
    BY DEF NoCommand, Commands, CommandOK, MountChoices, ConfigFileNames
  <2> QED BY <1>1, <2>1, BeginTyped DEF BeginWizard
<1>2. ASSUME NEW p \in Procs, WizardWritesProfiles(p) PROVE Goal
  <2>1. PICK profiles \in ProfileChoices : cmd' = [cmd EXCEPT ![p].profiles = profiles]
    BY <1>2 DEF WizardWritesProfiles
  <2> DEFINE c == [cmd[p] EXCEPT !.profiles = profiles]
  <2>2. c \in Commands /\ CommandOK(c)
    BY DEF Commands, CommandOK
  <2>3. cmd' = [cmd EXCEPT ![p] = c] /\ commands' = commands
    BY <1>2, <2>1 DEF WizardWritesProfiles
  <2> QED BY <2>2, <2>3, CommandTyped
<1>3. ASSUME NEW p \in Procs, WizardWritesMounts(p) PROVE Goal
  <2>1. PICK mounts \in MountChoices : cmd' = [cmd EXCEPT ![p].mounts = mounts]
    BY <1>3 DEF WizardWritesMounts
  <2> DEFINE c == [cmd[p] EXCEPT !.mounts = mounts]
  <2>2. c \in Commands /\ CommandOK(c)
    <3>1. mounts \in SUBSET (UserMounts \cup WizardMounts)
      BY DEF MountChoices
    <3>2. cmd[p].kind = "wizard"
      BY <1>3 DEF WizardWritesMounts, Wizard
    <3> QED BY <3>1, <3>2 DEF Commands, CommandOK
  <2>3. cmd' = [cmd EXCEPT ![p] = c] /\ commands' = commands
    BY <1>3, <2>1 DEF WizardWritesMounts
  <2> QED BY <2>2, <2>3, CommandTyped
<1>4. ASSUME NEW p \in Procs, NEW name \in UserMounts, BeginAdd(p, name) PROVE Goal
  <2> DEFINE c == [NoCommand EXCEPT !.kind = "add", !.at = "mounts",
                                    !.mounts = Registered, !.name = name]
  <2>1. Registered \in SUBSET (UserMounts \cup WizardMounts)
    <3>1. CASE target["mounts"] = None
      BY <3>1 DEF Registered
    <3>2. CASE target["mounts"] # None
      <4>1. "mounts" \in Files /\ Contents["mounts"] = SUBSET (UserMounts \cup WizardMounts)
        BY ConfigAssumption DEF ConfigFileNames, ConfigContents
      <4>2. Registered \in {Empty, Half} \cup Contents["mounts"]
        BY <3>2, <4>1 DEF WriteTypeOK, Registered
      <4>3. Registered \notin {Empty, Half}
        BY <1>4, <3>2 DEF BeginAdd, IsWhole, Registered
      <4> QED BY <4>1, <4>2, <4>3
    <3> QED BY <3>1, <3>2
  <2>2. c \in Commands /\ CommandOK(c)
    BY <2>1 DEF NoCommand, Commands, CommandOK, ConfigFileNames
  <2> QED BY <1>4, <2>2, BeginTyped DEF BeginAdd
<1>5. ASSUME NEW p \in Procs, NEW f \in Files, NEW forced \in BOOLEAN, BeginInit(p, f, forced)
      PROVE  Goal
  <2> DEFINE c == [NoCommand EXCEPT !.kind = "init", !.at = f]
  <2>1. c \in Commands /\ CommandOK(c)
    BY <1>5, ConfigAssumption DEF BeginInit, NoCommand, Commands, CommandOK
  <2> QED BY <1>5, <2>1, BeginTyped DEF BeginInit
<1>6. ASSUME NEW p \in Procs,
             \/ WizardWritesHarnesses(p) \/ WizardWritesPresets(p)
             \/ AddWrites(p) \/ InitWrites(p)
      PROVE  Goal
  BY <1>6 DEF WizardWritesHarnesses, WizardWritesPresets, AddWrites, InitWrites, CommandsOK
<1>7. ASSUME NEW p \in Procs, Filled(p) PROVE Goal
  BY <1>7, GoOnTyped DEF Filled, CommandsOK
<1>8. ASSUME NEW p \in Procs, Written(p) PROVE Goal
  <2>1. cmd[p].at \in ConfigFileNames
    BY <1>8, NotWritingIsNone DEF Written, Publish, WritersHaveCommands, Over, Commands
  <2>2. After(p) = "end" \/ (cmd[p].kind = "wizard" /\ After(p) \in ConfigFileNames)
    BY <2>1 DEF After, FollowedBy, ConfigFileNames
  <2> QED BY <1>8, <2>2, GoOnTyped DEF Written
<1>9. ASSUME NEW p \in Procs, Lost(p) \/ Dies(p) \/ Interrupted(p) PROVE Goal
  BY <1>9, NoCommandOK, CommandTyped DEF Lost, Dies, Interrupted, Quit
<1>10. CASE UNCHANGED vars
  BY <1>10 DEF vars, CommandsOK
<1> QED BY <1>1, <1>2, <1>3, <1>4, <1>5, <1>6, <1>7, <1>8, <1>9, <1>10 DEF Next

LEMMA WritersKept ==
  ASSUME TypeOK, WritersHaveCommands, [Next]_vars
  PROVE  WritersHaveCommands'
<1> USE DEF TypeOK, WriteTypeOK
<1>1. ASSUME NEW p \in Procs, NEW c \in Commands, c.at # "end", Begin(p, c)
      PROVE  WritersHaveCommands'
  <2> SUFFICES ASSUME NEW q \in Procs, writer'[q] # NotWriting PROVE cmd'[q].at # "end"
    BY DEF WritersHaveCommands, Over
  <2>1. ~ Over(q)
    BY <1>1 DEF Begin, writeVars, WritersHaveCommands
  <2>2. q # p
    BY <1>1, <2>1 DEF Begin
  <2>3. cmd'[q] = [cmd[q] EXCEPT !.alone = FALSE]
    BY <1>1, <2>1, <2>2 DEF Begin
  <2>4. cmd[q] \in Commands
    OBVIOUS
  <2> QED BY <2>1, <2>3, <2>4 DEF Over, Commands
<1>2. ASSUME NEW p \in Procs, NEW forced \in BOOLEAN, BeginWizard(p, forced)
      PROVE  WritersHaveCommands'
  <2> DEFINE c == [NoCommand EXCEPT !.kind = "wizard", !.at = "profiles"]
  <2>1. c \in Commands /\ c.at # "end"
    BY DEF NoCommand, Commands, ConfigFileNames
  <2> QED BY <1>1, <1>2, <2>1 DEF BeginWizard
<1>3. ASSUME NEW p \in Procs, NEW name \in UserMounts, BeginAdd(p, name)
      PROVE  WritersHaveCommands'
  <2> SUFFICES ASSUME NEW q \in Procs, writer'[q] # NotWriting PROVE cmd'[q].at # "end"
    BY DEF WritersHaveCommands, Over
  <2>1. ~ Over(q)
    BY <1>3 DEF BeginAdd, Begin, writeVars, WritersHaveCommands
  <2>2. q # p
    BY <1>3, <2>1 DEF BeginAdd, Begin
  <2>3. cmd'[q] = [cmd[q] EXCEPT !.alone = FALSE]
    BY <1>3, <2>1, <2>2 DEF BeginAdd, Begin
  <2>4. cmd[q] \in Commands
    OBVIOUS
  <2> QED BY <2>1, <2>3, <2>4 DEF Over, Commands
<1>4. ASSUME NEW p \in Procs, NEW f \in Files, NEW forced \in BOOLEAN, BeginInit(p, f, forced)
      PROVE  WritersHaveCommands'
  <2> DEFINE c == [NoCommand EXCEPT !.kind = "init", !.at = f]
  <2>1. c \in Commands /\ c.at # "end"
    BY ConfigAssumption DEF NoCommand, Commands, ConfigFileNames
  <2> QED BY <1>1, <1>4, <2>1 DEF BeginInit
<1>5. ASSUME NEW p \in Procs, NEW f \in Files, NEW text, ~ Over(p),
             OpenTemp(p, f, text) \/ OpenTarget(p, f, text),
             \A q \in Procs : cmd'[q].at = cmd[q].at
      PROVE  WritersHaveCommands'
  <2>1. \A q \in Procs \ {p} : writer'[q] = writer[q]
    BY <1>5 DEF OpenTemp, OpenTarget
  <2> QED BY <1>5, <2>1 DEF WritersHaveCommands, Over
<1>6. ASSUME NEW p \in Procs, WizardWritesProfiles(p) PROVE WritersHaveCommands'
  <2>1. \A q \in Procs : cmd'[q].at = cmd[q].at
    BY <1>6 DEF WizardWritesProfiles, Commands
  <2> QED BY <1>5, <1>6, <2>1, ConfigAssumption
       DEF WizardWritesProfiles, Wizard, Over, ConfigFileNames
<1>7. ASSUME NEW p \in Procs, WizardWritesMounts(p) PROVE WritersHaveCommands'
  <2>1. \A q \in Procs : cmd'[q].at = cmd[q].at
    BY <1>7 DEF WizardWritesMounts, Commands
  <2> QED BY <1>5, <1>7, <2>1, ConfigAssumption
       DEF WizardWritesMounts, Wizard, Over, ConfigFileNames
<1>8. ASSUME NEW p \in Procs,
             \/ WizardWritesHarnesses(p) \/ WizardWritesPresets(p) \/ AddWrites(p)
      PROVE  WritersHaveCommands'
  BY <1>5, <1>8, ConfigAssumption
     DEF WizardWritesHarnesses, WizardWritesPresets, AddWrites, Wizard, Over, ConfigFileNames
<1>9. ASSUME NEW p \in Procs, InitWrites(p) PROVE WritersHaveCommands'
  <2>1. cmd[p].at \in Files
    BY <1>9, ConfigAssumption DEF InitWrites, Over, Commands
  <2> QED BY <1>5, <1>9, <2>1 DEF InitWrites
<1>10. ASSUME NEW p \in Procs, ~ Over(p), ~ writer[p].direct, Filled(p)
       PROVE  WritersHaveCommands'
  <2>1. \A q \in Procs \ {p} : writer'[q] = writer[q]
    BY <1>10 DEF Filled, Fill
  <2> QED BY <1>10, <2>1 DEF Filled, WritersHaveCommands, Over
<1>11. ASSUME NEW p \in Procs, writer'[p] = NotWriting,
              \A q \in Procs \ {p} : writer'[q] = writer[q] /\ cmd'[q] = cmd[q]
       PROVE  WritersHaveCommands'
  BY <1>11 DEF WritersHaveCommands, Over
<1>12. ASSUME NEW p \in Procs, Filled(p) PROVE WritersHaveCommands'
  <2>1. ~ Over(p)
    BY <1>12, NotWritingIsNone DEF Filled, Fill, WritersHaveCommands
  <2>2. CASE writer[p].direct
    BY <1>11, <1>12, <2>2 DEF Filled, Fill, GoOn
  <2> QED BY <1>10, <1>12, <2>1, <2>2
<1>13. ASSUME NEW p \in Procs, Written(p) PROVE WritersHaveCommands'
  BY <1>11, <1>13 DEF Written, Publish, GoOn
<1>14. ASSUME NEW p \in Procs, Lost(p) PROVE WritersHaveCommands'
  BY <1>11, <1>14 DEF Lost, PublishFails, Quit
<1>15. ASSUME NEW p \in Procs, Dies(p) PROVE WritersHaveCommands'
  BY <1>11, <1>15 DEF Dies, Die, Quit
<1>16. ASSUME NEW p \in Procs, Interrupted(p) PROVE WritersHaveCommands'
  BY <1>11, <1>16 DEF Interrupted, Quit, writeVars
<1>17. CASE UNCHANGED vars
  BY <1>17 DEF vars, WritersHaveCommands, Over
<1> QED
  BY <1>2, <1>3, <1>4, <1>6, <1>7, <1>8, <1>9, <1>12, <1>13, <1>14, <1>15, <1>16, <1>17
     DEF Next

ConfigIInv == TypeOK /\ WriteIInv /\ WritersHaveCommands

LEMMA InitConfigIInv == Init => ConfigIInv
  BY InitTypeOK, WriteInitIInv DEF Init, ConfigIInv, WriteInit, WritersHaveCommands

LEMMA NextConfigIInv == ConfigIInv /\ [Next]_vars => ConfigIInv'
<1> SUFFICES ASSUME ConfigIInv, [Next]_vars PROVE ConfigIInv'
  OBVIOUS
<1>1. WriteIInv'
  BY NextIsWriteStep, WriteNextIInv DEF ConfigIInv
<1>2. TypeOK'
  BY <1>1, CommandsKept DEF ConfigIInv, WriteIInv, TypeOK, CommandsOK
<1> QED BY <1>1, <1>2, WritersKept DEF ConfigIInv

\* The variables of ConfigFiles keep their types in every behaviour.
THEOREM TypeCorrect == Spec => []TypeOK
<1>1. ConfigIInv => TypeOK
  BY DEF ConfigIInv
<1> QED BY InitConfigIInv, NextConfigIInv, <1>1, PTL DEF Spec

\* The wizard and the other commands write by the steps of AtomicWrite only.
THEOREM CommandsWriteAtomically == Spec => WriteSpec
<1>1. Init => WriteInit
  BY DEF Init
<1>2. ConfigIInv /\ [Next]_vars => [WriteNext]_writeVars
  BY NextIsWriteStep DEF ConfigIInv
<1> QED BY InitConfigIInv, NextConfigIInv, <1>1, <1>2, PTL DEF Spec, WriteSpec

\* Whatever is written and wherever the writers die, a file that was neither
\* opened by two of them at once nor written directly is whole.
THEOREM WholeUnlessWritersMeet == WriteSpec => []WholeUnlessMet
<1>1. WriteIInv => WholeUnlessMet
  BY DEF WriteIInv
<1> QED BY WriteInitIInv, WriteNextIInv, <1>1, PTL DEF WriteSpec

\* The same of the four configuration files and their commands.
THEOREM ConfigWholeUnlessMet == Spec => []WholeUnlessMet
  BY CommandsWriteAtomically, WholeUnlessWritersMeet, PTL

\* A file no two writers met at changes only when one is published.
LEMMA FileMoved ==
  ASSUME WriteIInv, [WriteNext]_writeVars, NEW g \in Files, g \notin met'
  PROVE  Found(g)' = Found(g) \/ \E p \in Procs : Replaces(p, g)
<1> USE DEF WriteIInv
<1>0. CASE UNCHANGED writeVars
  BY <1>0 DEF writeVars, Found
<1>1. ASSUME NEW p \in Procs, NEW f \in Files, NEW text, OpenTemp(p, f, text)
      PROVE  Found(g)' = Found(g)
  <2>1. PICK i \in Inodes : OpenedAs(f, tmp[f], i) /\ data' = [data EXCEPT ![f][i] = Empty]
    BY <1>1 DEF OpenTemp
  <2>2. target' = target
    BY <1>1 DEF OpenTemp
  <2>3. i # target[f]
    BY <2>1, ContentsAssumption DEF OpenedAs, Unused, TempIsNotTarget
  <2>4. target[g] # None => data'[g][target[g]] = data[g][target[g]]
    BY <2>1, <2>3 DEF WriteTypeOK
  <2> QED BY <2>2, <2>4 DEF Found
<1>2. ASSUME NEW p \in Procs, NEW f \in Files, NEW text, OpenTarget(p, f, text)
      PROVE  Found(g)' = Found(g)
  <2>1. f # g
    BY <1>2 DEF OpenTarget
  <2>2. data'[g] = data[g] /\ target'[g] = target[g]
    BY <1>2, <2>1 DEF OpenTarget, WriteTypeOK
  <2> QED BY <2>2 DEF Found
<1>3. ASSUME NEW p \in Procs, writer[p].stage # "none", UNCHANGED << target, met >>,
             NEW new, data' = [data EXCEPT ![writer[p].file][writer[p].inode] = new]
      PROVE  Found(g)' = Found(g)
  <2>1. CASE writer[p].file = g
    <3>1. writer[p].inode # target[g] \/ target[g] = None
      BY <1>3, <2>1 DEF OwnsTemp, TempIsNotTarget
    <3> QED BY <1>3, <2>1, <3>1 DEF Found, WriteTypeOK
  <2>2. CASE writer[p].file # g
    <3>1. data'[g] = data[g]
      BY <1>3, <2>2 DEF WriteTypeOK
    <3> QED BY <1>3, <3>1 DEF Found
  <2> QED BY <2>1, <2>2
<1>4. ASSUME NEW p \in Procs, Fill(p) PROVE Found(g)' = Found(g)
  BY <1>3, <1>4 DEF Fill
<1>5. ASSUME NEW p \in Procs, Die(p) PROVE Found(g)' = Found(g)
  <2>1. CASE writer[p].stage = "open"
    BY <1>3, <1>5, <2>1 DEF Die
  <2>2. CASE writer[p].stage # "open"
    BY <1>5, <2>2 DEF Die, Found
  <2> QED BY <2>1, <2>2
<1>6. ASSUME NEW p \in Procs, PublishFails(p) PROVE Found(g)' = Found(g)
  BY <1>6 DEF PublishFails, Found
<1>7. ASSUME NEW p \in Procs, Publish(p), writer[p].file # g
      PROVE  Found(g)' = Found(g)
  <2>1. data'[g] = data[g] /\ target'[g] = target[g]
    BY <1>7 DEF Publish, WriteTypeOK
  <2> QED BY <2>1 DEF Found
<1>8. ASSUME NEW p \in Procs, Publish(p), writer[p].file = g
      PROVE  Replaces(p, g)
  <2>1. /\ writer[p].stage = "filled" /\ tmp[g] # None /\ met' = met
        /\ target'[g] = tmp[g]
        /\ data'[g][tmp[g]] = data[g][tmp[g]]
        /\ writer'[p] = NotWriting
    BY <1>8 DEF Publish, WriteTypeOK
  <2>2. data[g][tmp[g]] = writer[p].text
    BY <1>8, <2>1 DEF OwnsTemp
  <2> QED BY <1>8, <2>1, <2>2 DEF Replaces, Found
<1> QED
  BY <1>0, <1>1, <1>2, <1>4, <1>5, <1>6, <1>7, <1>8 DEF WriteNext

\* Wherever a crash or a failed rename cuts them, the writers of a file leave its
\* readers the old contents or put all of the new ones there (atomic_write_text).
THEOREM WritesSwapWhole == WriteSpec => ReadersSeeOldOrNew
<1>1. WriteIInv /\ [WriteNext]_writeVars => [OldOrNew]_writeVars
  BY FileMoved DEF OldOrNew
<1> QED
  BY WriteInitIInv, WriteNextIInv, <1>1, PTL DEF WriteSpec, ReadersSeeOldOrNew

\* The same of the commands that write ~/.whizzard/config.
THEOREM ConfigSwapsWhole == Spec => ReadersSeeOldOrNew
  BY CommandsWriteAtomically, WritesSwapWhole

-----------------------------------------------------------------------------
(* The registry of mounts *)

\* Only a wizard writes the registry anew; every other command adds to what it
\* has loaded.
AddsToLoaded ==
  \A p \in Procs :
    Writing(p, "mounts") /\ cmd[p].kind # "wizard" =>
      writer[p].text = Added(cmd[p].mounts, cmd[p].name)

LEMMA BeginAddsToLoaded ==
  ASSUME TypeOK, WritersHaveCommands, AddsToLoaded, NEW p \in Procs, NEW c, Begin(p, c)
  PROVE  AddsToLoaded'
<1> SUFFICES ASSUME NEW q \in Procs, Writing(q, "mounts")', cmd'[q].kind # "wizard"
             PROVE  writer'[q].text = Added(cmd'[q].mounts, cmd'[q].name)
  BY DEF AddsToLoaded
<1>1. writer' = writer
  BY DEF Begin, writeVars
<1>2. Writing(q, "mounts")
  BY <1>1 DEF Writing
<1>3. ~ Over(q)
  BY <1>2, NotWritingIsNone DEF Writing, WritersHaveCommands
<1>4. q # p
  BY <1>3 DEF Begin
<1>5. cmd'[q] = [cmd[q] EXCEPT !.alone = FALSE] /\ cmd[q] \in Commands
  BY <1>3, <1>4 DEF Begin, TypeOK
<1>6. cmd'[q].kind = cmd[q].kind /\ cmd'[q].mounts = cmd[q].mounts /\ cmd'[q].name = cmd[q].name
  BY <1>5 DEF Commands
<1> QED BY <1>1, <1>2, <1>6 DEF AddsToLoaded

\* The others stay as they are; p opens no write of the registry, or is a wizard.
LEMMA StaysAddsToLoaded ==
  ASSUME AddsToLoaded, NEW p \in Procs,
         \A q \in Procs \ {p} : writer'[q] = writer[q] /\ cmd'[q] = cmd[q],
         \/ ~ Writing(p, "mounts")'
         \/ cmd'[p].kind = "wizard"
         \/ writer'[p].text = Added(cmd'[p].mounts, cmd'[p].name)
  PROVE  AddsToLoaded'
  BY DEF AddsToLoaded, Writing

LEMMA OpensWrite ==
  ASSUME TypeOK, NEW p \in Procs, NEW f \in Files, NEW text,
         OpenTemp(p, f, text) \/ OpenTarget(p, f, text)
  PROVE  /\ writer'[p].file = f /\ writer'[p].text = text
         /\ \A q \in Procs \ {p} : writer'[q] = writer[q]
  BY DEF OpenTemp, OpenTarget, Opened, TypeOK, WriteTypeOK

LEMMA AddsToLoadedKept ==
  ASSUME TypeOK, WritersHaveCommands, AddsToLoaded, [Next]_vars
  PROVE  AddsToLoaded'
<1> USE DEF TypeOK, WriteTypeOK
<1>0. ConfigFileNames \subseteq Files /\ "mounts" \in Files
  BY ConfigAssumption DEF ConfigFileNames
<1>1. ASSUME NEW p \in Procs,
             \/ \E forced \in BOOLEAN : BeginWizard(p, forced)
             \/ \E name \in UserMounts : BeginAdd(p, name)
             \/ \E f \in Files, forced \in BOOLEAN : BeginInit(p, f, forced)
      PROVE  AddsToLoaded'
  BY <1>1, BeginAddsToLoaded DEF BeginWizard, BeginAdd, BeginInit
<1>2. ASSUME NEW p \in Procs, WizardWritesProfiles(p) PROVE AddsToLoaded'
  <2>1. PICK profiles \in ProfileChoices :
          OpenTemp(p, "profiles", profiles) /\ cmd' = [cmd EXCEPT ![p].profiles = profiles]
    BY <1>2 DEF WizardWritesProfiles
  <2>2. "profiles" \in Files
    BY <1>0 DEF ConfigFileNames
  <2> QED BY <2>1, <2>2, OpensWrite, StaysAddsToLoaded DEF Writing
<1>3. ASSUME NEW p \in Procs, WizardWritesMounts(p) PROVE AddsToLoaded'
  <2>1. PICK mounts \in MountChoices :
          OpenTemp(p, "mounts", mounts) /\ cmd' = [cmd EXCEPT ![p].mounts = mounts]
    BY <1>3 DEF WizardWritesMounts
  <2>2. cmd'[p].kind = "wizard"
    BY <1>3, <2>1 DEF WizardWritesMounts, Wizard, Commands
  <2> QED BY <1>0, <2>1, <2>2, OpensWrite, StaysAddsToLoaded
<1>4. ASSUME NEW p \in Procs, WizardWritesHarnesses(p) PROVE AddsToLoaded'
  <2>1. "harnesses" \in Files
    BY <1>0 DEF ConfigFileNames
  <2> QED BY <1>4, <2>1, OpensWrite, StaysAddsToLoaded DEF WizardWritesHarnesses, Writing
<1>5. ASSUME NEW p \in Procs, WizardWritesPresets(p) PROVE AddsToLoaded'
  <2>1. "presets" \in Files
    BY <1>0 DEF ConfigFileNames
  <2> QED BY <1>5, <2>1, OpensWrite, StaysAddsToLoaded DEF WizardWritesPresets, Writing
<1>6. ASSUME NEW p \in Procs, AddWrites(p) PROVE AddsToLoaded'
  BY <1>0, <1>6, OpensWrite, StaysAddsToLoaded DEF AddWrites
<1>7. ASSUME NEW p \in Procs, InitWrites(p) PROVE AddsToLoaded'
  <2>1. cmd[p].at \in Files /\ cmd[p].at # "mounts"
    BY <1>0, <1>7 DEF InitWrites, Over, Commands, CommandOK
  <2> QED BY <1>7, <2>1, OpensWrite, StaysAddsToLoaded DEF InitWrites, Writing
<1>8. ASSUME NEW p \in Procs, writer'[p] = NotWriting,
             \A q \in Procs \ {p} : writer'[q] = writer[q] /\ cmd'[q] = cmd[q]
      PROVE  AddsToLoaded'
  BY <1>8, NotWritingIsNone, StaysAddsToLoaded DEF Writing
<1>9. ASSUME NEW p \in Procs, Filled(p) PROVE AddsToLoaded'
  <2>1. CASE writer[p].direct
    BY <1>8, <1>9, <2>1 DEF Filled, Fill, GoOn
  <2>2. CASE ~ writer[p].direct
    <3>1. writer' = [writer EXCEPT ![p] = [writer[p] EXCEPT !.stage = "filled"]] /\ cmd' = cmd
      BY <1>9, <2>2 DEF Filled, Fill
    <3>2. writer[p].stage # "none"
      BY <1>9 DEF Filled, Fill
    <3>3. writer'[p].file = writer[p].file /\ writer'[p].text = writer[p].text
      BY <3>1, <3>2, OpenWriteFacts DEF OpenWrites
    <3> QED BY <3>1, <3>2, <3>3 DEF AddsToLoaded, Writing
  <2> QED BY <2>1, <2>2
<1>10. ASSUME NEW p \in Procs, Written(p) \/ Lost(p) \/ Dies(p) \/ Interrupted(p)
       PROVE  AddsToLoaded'
  BY <1>8, <1>10 DEF Written, Publish, GoOn, Lost, PublishFails, Dies, Die, Interrupted,
     Quit, writeVars
<1>11. CASE UNCHANGED vars
  BY <1>11 DEF vars, AddsToLoaded, Writing
<1> QED
  BY <1>1, <1>2, <1>3, <1>4, <1>5, <1>6, <1>7, <1>9, <1>10, <1>11 DEF Next

\* A registry no two writers met at changes only when one is published.
LEMMA RegistryMoved ==
  ASSUME WriteIInv, [WriteNext]_writeVars, "mounts" \notin met', "mounts" \in Files
  PROVE  \/ Registered' = Registered
         \/ \E p \in Procs :
              /\ Published(p) /\ writer[p].file = "mounts"
              /\ Registered' = writer[p].text
<1>1. Registered = UNION Found("mounts") /\ Registered' = UNION Found("mounts")'
  BY DEF Registered, Found
<1>2. CASE Found("mounts")' = Found("mounts")
  BY <1>1, <1>2
<1>3. ASSUME NEW p \in Procs, Replaces(p, "mounts")
      PROVE  Published(p) /\ writer[p].file = "mounts" /\ Registered' = writer[p].text
  BY <1>1, <1>3 DEF Replaces, Published
<1> QED BY <1>2, <1>3, FileMoved

\* However many commands load, change and save the registry, a mount goes from it
\* only by a wizard's choice, by an `add` that loaded before somebody else saved,
\* or where two writers met (mounts_add_cmd).
THEOREM RegistryKept == Spec => KeepsRegistered
<1>1. Init => AddsToLoaded
  BY DEF Init, WriteInit, AddsToLoaded, Writing, NotWriting
<1>2. ConfigIInv /\ AddsToLoaded /\ [Next]_vars => AddsToLoaded'
  BY AddsToLoadedKept DEF ConfigIInv
<1>3. ConfigIInv /\ AddsToLoaded /\ [Next]_vars =>
        [ \/ "mounts" \in met'
          \/ Registered \subseteq Registered'
          \/ \E p \in Procs : Published(p) /\ writer[p].file = "mounts" /\ Excused(p) ]_vars
  <2> SUFFICES ASSUME ConfigIInv, AddsToLoaded, [Next]_vars, "mounts" \notin met'
               PROVE  \/ Registered \subseteq Registered'
                      \/ \E p \in Procs :
                           Published(p) /\ writer[p].file = "mounts" /\ Excused(p)
    OBVIOUS
  <2>1. "mounts" \in Files
    BY ConfigAssumption DEF ConfigFileNames
  <2>2. CASE Registered' = Registered
    BY <2>2
  <2>3. ASSUME NEW p \in Procs, Published(p), writer[p].file = "mounts",
               Registered' = writer[p].text, ~ Excused(p)
        PROVE  Registered \subseteq Registered'
    <3>1. writer[p].text = Added(Registered, cmd[p].name)
      BY <2>3 DEF AddsToLoaded, Writing, Published, Excused
    <3> QED BY <2>3, <3>1 DEF Added
  <2> QED BY <2>1, <2>2, <2>3, NextIsWriteStep, RegistryMoved DEF ConfigIInv
<1> QED BY InitConfigIInv, NextConfigIInv, <1>1, <1>2, <1>3, PTL DEF Spec, KeepsRegistered

-----------------------------------------------------------------------------
(* A wizard with nobody in between *)

LoneWizard(p) == cmd[p].kind = "wizard" /\ cmd[p].alone

\* What the wizard may write into each of its files, by the answers so far.
Answers(p) ==
  [ profiles |-> {cmd[p].profiles}, mounts |-> {cmd[p].mounts},
    harnesses |-> {WizardHarnesses},
    presets |-> PresetChoices(cmd[p].profiles, cmd[p].mounts) ]

Behind ==
  [ profiles |-> {}, mounts |-> {"profiles"}, harnesses |-> {"profiles", "mounts"},
    presets |-> {"profiles", "mounts", "harnesses"}, end |-> {} ]

\* A reader of f finds what the wizard wrote.
Stands(p, f) ==
  /\ target[f] # None
  /\ data[f][target[f]] \in Contents[f]
  /\ data[f][target[f]] \in Answers(p)[f]

\* The wizard's write is its own, whatever the temporary held before.
WritesItsOwn(p) ==
  LET w == writer[p] IN
  w.stage # "none" =>
    /\ w.file = cmd[p].at
    /\ ~ w.direct
    /\ w.text \in Answers(p)[w.file]
    /\ tmp[w.file] = w.inode
    /\ data[w.file][w.inode] = IF w.stage = "open" THEN Empty ELSE w.text

Undisturbed(p) ==
  LoneWizard(p) =>
    /\ \A q \in Procs \ {p} : Over(q)
    /\ WritesItsOwn(p)
    /\ \A f \in Behind[cmd[p].at] : Stands(p, f)
    /\ Over(p) => Unchecked \/ Resolves

LEMMA AnotherBegins ==
  ASSUME TypeOK, NEW p \in Procs, NEW r \in Procs \ {p}, NEW c, Begin(r, c)
  PROVE  ~ LoneWizard(p)'
<1>1. CASE Over(p)
  BY <1>1 DEF Begin, LoneWizard, NoCommand
<1>2. CASE ~ Over(p)
  <2>1. cmd'[p] = [cmd[p] EXCEPT !.alone = FALSE] /\ cmd[p] \in Commands
    BY <1>2 DEF Begin, TypeOK
  <2> QED BY <2>1 DEF Commands, LoneWizard
<1> QED BY <1>1, <1>2

\* What a step of p that begins no command may be.
Goes(p) ==
  \/ WizardWritesProfiles(p) \/ WizardWritesMounts(p)
  \/ WizardWritesHarnesses(p) \/ WizardWritesPresets(p)
  \/ AddWrites(p) \/ InitWrites(p)
  \/ Filled(p) \/ Written(p) \/ Lost(p) \/ Dies(p) \/ Interrupted(p)

LEMMA IdleGoesNowhere ==
  ASSUME TypeOK, WritersHaveCommands, NEW p \in Procs, Over(p)
  PROVE  ~ Goes(p)
<1>1. writer[p] = NotWriting
  BY DEF WritersHaveCommands
<1> QED
  BY <1>1, NotWritingIsNone DEF Goes, WizardWritesProfiles, WizardWritesMounts,
     WizardWritesHarnesses, WizardWritesPresets, Wizard, AddWrites, InitWrites, Filled, Fill,
     Written, Publish, Lost, PublishFails, Dies, Die, Interrupted, Over

LEMMA GoesAlone ==
  ASSUME TypeOK, NEW p \in Procs, Goes(p)
  PROVE  \A q \in Procs \ {p} : cmd'[q] = cmd[q]
  BY DEF Goes, WizardWritesProfiles, WizardWritesMounts, WizardWritesHarnesses,
     WizardWritesPresets, AddWrites, InitWrites, Filled, Written, GoOn, Lost, Dies,
     Interrupted, Quit, TypeOK

\* The four files a wizard leaves launch a preset, but for the answers it does not check.
LEMMA AnswersResolve ==
  ASSUME NEW profiles, NEW mounts,
         \A f \in ConfigFileNames : target'[f] # None /\ data'[f][target'[f]] \in Contents[f],
         data'["profiles"][target'["profiles"]] = profiles,
         data'["mounts"][target'["mounts"]] = mounts,
         data'["harnesses"][target'["harnesses"]] = WizardHarnesses,
         data'["presets"][target'["presets"]] \in PresetChoices(profiles, mounts)
  PROVE  Unchecked' \/ Resolves'
<1> DEFINE presets == data'["presets"][target'["presets"]]
<1>1. /\ Loaded("profiles")' = profiles /\ Loaded("mounts")' = mounts
      /\ Loaded("harnesses")' = WizardHarnesses /\ Loaded("presets")' = presets
      /\ Registered' = mounts
  BY DEF Loaded, Registered, ConfigFileNames
<1> SUFFICES ASSUME ~ Unchecked' PROVE Resolves'
  OBVIOUS
<1>2. mounts \cap OddMounts = {}
  BY <1>1 DEF Unchecked
<1>3. \A f \in Files : IsWhole(f)'
  BY ConfigAssumption, ContentsAssumption DEF IsWhole
<1>4. AllLoad'
  BY <1>1, <1>2, <1>3 DEF AllLoad
<1>5. ASSUME NEW preset \in presets
      PROVE  /\ preset.profile \in profiles
             /\ preset.harness \in DOMAIN WizardHarnesses
             /\ preset.mounts \subseteq mounts
             /\ preset.platforms \subseteq WizardHarnesses[preset.harness]
  <2>1. PICK profile \in profiles \cup {"default"}, attached \in {{}, mounts} :
          preset = WizardPreset(profile, attached)
    BY <1>5 DEF PresetChoices
  <2>2. /\ preset.profile = profile /\ preset.harness = "hermes"
        /\ preset.mounts = attached /\ preset.platforms = {}
    BY <2>1 DEF WizardPreset, Preset
  <2>3. profile \in profiles
    BY <1>1, <1>5, <2>2 DEF Unchecked
  <2> QED BY <2>2, <2>3 DEF WizardHarnesses
<1> QED BY <1>1, <1>4, <1>5 DEF Resolves

\* The wizard opens the next of its files.
LEMMA WizardOpens ==
  ASSUME TypeOK, NEW p \in Procs, Undisturbed(p), LoneWizard(p),
         NEW f \in ConfigFileNames, cmd[p].at = f, NEW text, OpenTemp(p, f, text),
         text \in Answers(p)'[f], cmd'[p].at = f,
         \A g \in Behind[f] : Answers(p)'[g] = Answers(p)[g],
         \A q \in Procs \ {p} : cmd'[q] = cmd[q]
  PROVE  Undisturbed(p)'
<1> USE DEF TypeOK, WriteTypeOK
<1>1. \A q \in Procs \ {p} : Over(q)'
  BY DEF Undisturbed, Over
<1>2. PICK i \in Inodes :
        /\ tmp' = [tmp EXCEPT ![f] = i]
        /\ data' = [data EXCEPT ![f][i] = Empty]
        /\ writer' = [writer EXCEPT ![p] = Opened(f, text, i, FALSE)]
  BY DEF OpenTemp
<1>3. f \in Files
  BY ConfigAssumption
<1>4. WritesItsOwn(p)'
  <2>1. writer'[p] = Opened(f, text, i, FALSE)
    BY <1>2
  <2>2. tmp'[f] = i /\ data'[f][i] = Empty
    BY <1>2, <1>3
  <2> QED BY <2>1, <2>2 DEF WritesItsOwn, Opened
<1>5. \A g \in Behind[f] : g # f /\ g \in Files
  BY ConfigAssumption DEF Behind, ConfigFileNames
<1>6. ASSUME NEW g \in Behind[f] PROVE Stands(p, g)'
  <2>1. data'[g] = data[g] /\ target'[g] = target[g]
    BY <1>2, <1>5 DEF OpenTemp
  <2>2. Stands(p, g)
    BY DEF Undisturbed
  <2> QED BY <2>1, <2>2 DEF Stands
<1>7. ~ Over(p)'
  BY DEF Over, ConfigFileNames
<1> QED BY <1>1, <1>4, <1>6, <1>7 DEF Undisturbed

LEMMA WizardFills ==
  ASSUME TypeOK, WritersHaveCommands, NEW p \in Procs, Undisturbed(p), LoneWizard(p), Filled(p)
  PROVE  Undisturbed(p)'
<1> USE DEF TypeOK, WriteTypeOK
<1> DEFINE w == writer[p]
           f == writer[p].file
<1>1. /\ w.stage = "open" /\ ~ w.direct /\ f = cmd[p].at /\ w.text \in Answers(p)[f]
      /\ tmp[f] = w.inode /\ data[f][w.inode] = Empty
  BY DEF Filled, Fill, Undisturbed, WritesItsOwn
<1>2. f \in Files /\ w.inode \in Inodes /\ w \in OpenWrites(f)
  BY <1>1, OpenWriteFacts
<1>3. /\ data' = [data EXCEPT ![f][w.inode] = w.text]
      /\ writer' = [writer EXCEPT ![p] = [w EXCEPT !.stage = "filled"]]
      /\ target' = target /\ tmp' = tmp /\ cmd' = cmd
  BY <1>1 DEF Filled, Fill, Overlay
<1>4. \A q \in Procs \ {p} : Over(q)'
  BY <1>3 DEF Undisturbed, Over
<1>5. WritesItsOwn(p)'
  <2>1. /\ writer'[p].stage = "filled" /\ writer'[p].file = f /\ writer'[p].text = w.text
        /\ writer'[p].inode = w.inode /\ writer'[p].direct = w.direct
    BY <1>2, <1>3 DEF OpenWrites
  <2>2. data'[f][w.inode] = w.text
    BY <1>2, <1>3
  <2>3. Answers(p)' = Answers(p)
    BY <1>3 DEF Answers
  <2> QED BY <1>1, <1>3, <2>1, <2>2, <2>3 DEF WritesItsOwn
<1>6. ASSUME NEW g \in Behind[cmd[p].at] PROVE Stands(p, g)'
  <2>1. g # f
    BY <1>1, <1>2, ConfigAssumption DEF Behind, ConfigFileNames
  <2>2. data'[g] = data[g]
    BY <1>3, <2>1
  <2>3. Stands(p, g)
    BY DEF Undisturbed
  <2> QED BY <1>3, <2>2, <2>3 DEF Stands, Answers
<1>7. ~ Over(p)'
  BY <1>1, <1>3, NotWritingIsNone DEF WritersHaveCommands, Over
<1> QED BY <1>3, <1>4, <1>5, <1>6, <1>7 DEF Undisturbed

LEMMA WizardPublishes ==
  ASSUME TypeOK, WritersHaveCommands, NEW p \in Procs, Undisturbed(p), LoneWizard(p), Written(p)
  PROVE  Undisturbed(p)'
<1> USE DEF TypeOK, WriteTypeOK
<1> DEFINE w == writer[p]
           f == writer[p].file
<1>1. /\ w.stage = "filled" /\ f = cmd[p].at /\ w.text \in Answers(p)[f]
      /\ tmp[f] # None /\ data[f][tmp[f]] = w.text
  BY DEF Written, Publish, Undisturbed, WritesItsOwn
<1>2. f \in Files /\ f \in ConfigFileNames /\ w.text \in Contents[f] /\ tmp[f] \in Inodes
  BY <1>1, OpenWriteFacts, ConfigAssumption
<1>3. /\ target' = [target EXCEPT ![f] = tmp[f]]
      /\ data'[f][tmp[f]] = data[f][tmp[f]]
      /\ \A g \in Files \ {f} : data'[g] = data[g] /\ target'[g] = target[g]
      /\ writer'[p] = NotWriting
  BY <1>2 DEF Written, Publish
<1>4. target'[f] # None /\ data'[f][target'[f]] = w.text
  BY <1>1, <1>2, <1>3
<1>5. \A q \in Procs \ {p} : Over(q)'
  BY DEF Written, GoOn, Undisturbed, Over
<1>6. WritesItsOwn(p)'
  BY <1>3, NotWritingIsNone DEF WritesItsOwn
<1>7. After(p) = FollowedBy[f]
  BY <1>1 DEF After, LoneWizard
<1>8. \A g \in Behind[f] : g \in Files \ {f} /\ Stands(p, g)
  BY <1>1, <1>2, ConfigAssumption DEF Undisturbed, Behind, ConfigFileNames
<1>9. ASSUME NEW g \in Behind[f] \cup {f}
      PROVE  /\ target'[g] # None
             /\ data'[g][target'[g]] \in Contents[g]
             /\ data'[g][target'[g]] \in Answers(p)[g]
  <2>1. CASE g = f
    BY <1>1, <1>2, <1>4, <2>1
  <2>2. CASE g \in Behind[f]
    BY <1>3, <1>8, <2>2 DEF Stands
  <2> QED BY <2>1, <2>2
<1>10. CASE f # "presets"
  <2>1. After(p) # "end" /\ Behind[After(p)] = Behind[f] \cup {f}
    BY <1>2, <1>7, <1>10 DEF FollowedBy, Behind, ConfigFileNames
  <2>2. cmd'[p] = [cmd[p] EXCEPT !.at = After(p)] /\ cmd[p] \in Commands
    BY <2>1 DEF Written, GoOn
  <2>3. cmd'[p].at = After(p) /\ Answers(p)' = Answers(p)
    BY <2>2 DEF Answers, Commands
  <2>4. \A g \in Behind[cmd'[p].at] : Stands(p, g)'
    BY <1>9, <2>1, <2>3 DEF Stands
  <2>5. ~ Over(p)'
    BY <2>1, <2>3 DEF Over
  <2> QED BY <1>5, <1>6, <2>4, <2>5 DEF Undisturbed
<1>11. CASE f = "presets"
  <2>1. cmd'[p] = Ended(p)
    BY <1>7, <1>11 DEF FollowedBy, Written, GoOn
  <2>2. Behind[cmd'[p].at] = {}
    BY <2>1 DEF Ended, NoCommand, Behind
  <2>3. \A g \in ConfigFileNames : g \in Behind[f] \cup {f}
    BY <1>11 DEF Behind, ConfigFileNames
  <2>4. Unchecked' \/ Resolves'
    BY <1>9, <2>3, AnswersResolve DEF Answers, ConfigFileNames
  <2> QED BY <1>5, <1>6, <2>2, <2>4 DEF Undisturbed
<1> QED BY <1>10, <1>11

LEMMA UndisturbedKept ==
  ASSUME TypeOK, WritersHaveCommands, NEW p \in Procs, Undisturbed(p), [Next]_vars
  PROVE  Undisturbed(p)'
<1> SUFFICES ASSUME LoneWizard(p)' PROVE Undisturbed(p)'
  BY DEF Undisturbed
<1>1. CASE UNCHANGED vars
  BY <1>1 DEF vars, Undisturbed, LoneWizard, Over, WritesItsOwn, Answers, Stands, Unchecked,
     Resolves, AllLoad, IsWhole, Loaded, Registered
<1>2. ASSUME NEW r \in Procs \ {p}, Goes(r) PROVE FALSE
  <2>1. LoneWizard(p)
    BY <1>2, GoesAlone DEF LoneWizard
  <2> QED BY <1>2, <2>1, IdleGoesNowhere DEF Undisturbed
<1>3. ASSUME NEW forced \in BOOLEAN, BeginWizard(p, forced) PROVE Undisturbed(p)'
  <2> DEFINE c == [NoCommand EXCEPT !.kind = "wizard", !.at = "profiles"]
  <2>1. Begin(p, c)
    BY <1>3 DEF BeginWizard
  <2>2. cmd'[p] = [c EXCEPT !.alone = \A r \in Procs \ {p} : Over(r)]
    BY <2>1 DEF Begin
  <2>3. cmd'[p].alone = (\A r \in Procs \ {p} : Over(r)) /\ cmd'[p].at = "profiles"
    BY <2>2 DEF NoCommand
  <2>4. \A q \in Procs \ {p} : Over(q)'
    BY <2>1, <2>3 DEF LoneWizard, Begin, Over, NoCommand
  <2>5. writer'[p] = NotWriting
    BY <2>1 DEF Begin, writeVars, WritersHaveCommands
  <2>6. WritesItsOwn(p)'
    BY <2>5, NotWritingIsNone DEF WritesItsOwn
  <2> QED BY <2>3, <2>4, <2>6 DEF Undisturbed, Behind, Over
<1>4. ASSUME NEW name \in UserMounts, BeginAdd(p, name) PROVE FALSE
  BY <1>4 DEF BeginAdd, Begin, LoneWizard, NoCommand
<1>5. ASSUME NEW f \in Files, NEW forced \in BOOLEAN, BeginInit(p, f, forced) PROVE FALSE
  BY <1>5 DEF BeginInit, Begin, LoneWizard, NoCommand
<1>6. CASE Goes(p)
  <2> USE DEF TypeOK
  <2>1. \A q \in Procs \ {p} : cmd'[q] = cmd[q]
    BY <1>6, GoesAlone
  <2>2. CASE WizardWritesProfiles(p)
    <3>1. PICK profiles \in ProfileChoices :
            OpenTemp(p, "profiles", profiles) /\ cmd' = [cmd EXCEPT ![p].profiles = profiles]
      BY <2>2 DEF WizardWritesProfiles
    <3>2. cmd'[p] = [cmd[p] EXCEPT !.profiles = profiles] /\ cmd[p] \in Commands
      BY <3>1
    <3>3. LoneWizard(p) /\ cmd[p].at = "profiles" /\ cmd'[p].at = "profiles"
      BY <2>2, <3>2 DEF WizardWritesProfiles, Wizard, LoneWizard, Commands
    <3>4. profiles \in Answers(p)'["profiles"]
      BY <3>2 DEF Answers, Commands
    <3>5. Behind["profiles"] = {} /\ "profiles" \in ConfigFileNames
      BY DEF Behind, ConfigFileNames
    <3> QED BY <2>1, <3>1, <3>3, <3>4, <3>5, WizardOpens
  <2>3. CASE WizardWritesMounts(p)
    <3>1. PICK mounts \in MountChoices :
            OpenTemp(p, "mounts", mounts) /\ cmd' = [cmd EXCEPT ![p].mounts = mounts]
      BY <2>3 DEF WizardWritesMounts
    <3>2. cmd'[p] = [cmd[p] EXCEPT !.mounts = mounts] /\ cmd[p] \in Commands
      BY <3>1
    <3>3. LoneWizard(p) /\ cmd[p].at = "mounts" /\ cmd'[p].at = "mounts"
      BY <2>3, <3>2 DEF WizardWritesMounts, Wizard, LoneWizard, Commands
    <3>4. /\ mounts \in Answers(p)'["mounts"]
          /\ Answers(p)'["profiles"] = Answers(p)["profiles"]
      BY <3>2 DEF Answers, Commands
    <3>5. Behind["mounts"] = {"profiles"} /\ "mounts" \in ConfigFileNames
      BY DEF Behind, ConfigFileNames
    <3> QED BY <2>1, <3>1, <3>3, <3>4, <3>5, WizardOpens
  <2>4. ASSUME NEW f \in ConfigFileNames, Wizard(p, f), cmd' = cmd,
               NEW text \in Answers(p)[f], OpenTemp(p, f, text)
        PROVE  Undisturbed(p)'
    <3>1. Answers(p)' = Answers(p) /\ LoneWizard(p) /\ cmd[p].at = f /\ cmd'[p].at = f
      BY <2>4 DEF Answers, LoneWizard, Wizard
    <3> QED BY <2>1, <2>4, <3>1, WizardOpens
  <2>5. CASE WizardWritesHarnesses(p)
    <3>1. WizardHarnesses \in Answers(p)["harnesses"] /\ "harnesses" \in ConfigFileNames
      BY DEF Answers, ConfigFileNames
    <3> QED BY <2>4, <2>5, <3>1 DEF WizardWritesHarnesses
  <2>6. CASE WizardWritesPresets(p)
    <3>1. /\ "presets" \in ConfigFileNames
          /\ Answers(p)["presets"] = PresetChoices(cmd[p].profiles, cmd[p].mounts)
      BY DEF Answers, ConfigFileNames
    <3> QED BY <2>4, <2>6, <3>1 DEF WizardWritesPresets
  <2>7. CASE AddWrites(p) \/ InitWrites(p)
    <3>1. LoneWizard(p) /\ ~ Wizard(p, cmd[p].at)
      <4>1. cmd' = cmd
        BY <2>7 DEF AddWrites, InitWrites
      <4>2. cmd[p].kind # "wizard"
        BY <2>7 DEF AddWrites, InitWrites
      <4> QED BY <4>1, <4>2 DEF LoneWizard, Wizard
    <3> QED BY <3>1 DEF LoneWizard, Wizard
  <2>8. CASE Filled(p)
    <3>1. LoneWizard(p)
      BY <2>8 DEF Filled, GoOn, Ended, NoCommand, LoneWizard
    <3> QED BY <2>8, <3>1, WizardFills
  <2>9. CASE Written(p)
    <3>1. cmd[p] \in Commands /\ cmd'[p] \in {Ended(p), [cmd[p] EXCEPT !.at = After(p)]}
      BY <2>9 DEF Written, GoOn
    <3>2. LoneWizard(p)
      BY <3>1 DEF Ended, NoCommand, LoneWizard, Commands
    <3> QED BY <2>9, <3>2, WizardPublishes
  <2>10. CASE Lost(p) \/ Dies(p) \/ Interrupted(p)
    BY <2>10 DEF Lost, Dies, Interrupted, Quit, NoCommand, LoneWizard
  <2> QED BY <1>6, <2>2, <2>3, <2>5, <2>6, <2>7, <2>8, <2>9, <2>10 DEF Goes
<1>7. ASSUME NEW r \in Procs \ {p}, NEW forced \in BOOLEAN, BeginWizard(r, forced) PROVE FALSE
  BY <1>7, AnotherBegins DEF BeginWizard
<1>8. ASSUME NEW r \in Procs \ {p}, NEW name \in UserMounts, BeginAdd(r, name) PROVE FALSE
  BY <1>8, AnotherBegins DEF BeginAdd
<1>9. ASSUME NEW r \in Procs \ {p}, NEW f \in Files, NEW forced \in BOOLEAN,
              BeginInit(r, f, forced)
       PROVE  FALSE
  BY <1>9, AnotherBegins DEF BeginInit
<1>10. ASSUME Next
       PROVE  \E r \in Procs :
                \/ Goes(r)
                \/ \E forced \in BOOLEAN : BeginWizard(r, forced)
                \/ \E name \in UserMounts : BeginAdd(r, name)
                \/ \E f \in Files, forced \in BOOLEAN : BeginInit(r, f, forced)
  BY <1>10 DEF Next, Goes
<1> QED
  BY <1>1, <1>2, <1>3, <1>4, <1>5, <1>6, <1>7, <1>8, <1>9, <1>10

\* A wizard nobody comes in between leaves four files a preset launch accepts,
\* whatever its user answered, whatever files, and temporaries of writers that
\* died, it found (run_wizard).
THEOREM SetupWorks == Spec => []SetupResolves
<1> DEFINE Lone == \A p \in Procs : Undisturbed(p)
<1>1. Init => Lone
  BY DEF Init, Undisturbed, LoneWizard, NoCommand
<1>2. ConfigIInv /\ Lone /\ [Next]_vars => Lone'
  BY UndisturbedKept DEF ConfigIInv
<1>3. Lone => SetupResolves
  BY DEF Undisturbed, SetupResolves, LoneWizard, Wizard, Over
<1> HIDE DEF Lone
<1> QED BY InitConfigIInv, NextConfigIInv, <1>1, <1>2, <1>3, PTL DEF Spec

=============================================================================
