-------------------------- MODULE RrdReportProofs ---------------------------
(***************************************************************************)
(* Theorems about RrdReport, for every number of categories, reports,      *)
(* issue types, attempts and seconds.                                      *)
(***************************************************************************)
EXTENDS RrdReport, TLAPS

-----------------------------------------------------------------------------
(***************************************************************************)
(* The invariant.  Names repeat and failed reports leave files behind, so  *)
(* it says which of the files a name stands for belong to the report at    *)
(* hand, and that whatever others left is not mixed with them.             *)
(***************************************************************************)
Uploading == pc \in {"check", "wait", "send", "sending"}
Working   == pc \in {"run", "name"} \/ Uploading

IsLive(p) == p.what = "live"

Shapes ==
  /\ dirs \in [DOMAIN dirs -> SUBSET Piece]
  /\ archives \in [DOMAIN archives -> SUBSET Piece]

\* What the code has set up at each point of a report.
Current ==
  /\ pc # "idle" => made \in Report /\ code[made] = "none"
  /\ \A r \in Report : r > made => code[r] = "none"
  /\ pc = "mkdir" => ~status
  /\ Working => outdir \in DOMAIN dirs
  /\ Working /\ pc # "run" => status /\ archive \in Name
  /\ Uploading => archive \in DOMAIN archives /\ archives[archive] = dirs[outdir]

\* The directory of the report holds its own output and nobody else's.
OwnDir ==
  /\ Working /\ status => Output(made) \in dirs[outdir]
  /\ Working => \A p \in dirs[outdir] : ~IsLive(p) => p.by = made

\* Its output is nowhere else.
NotElsewhere ==
  /\ \A n \in DOMAIN dirs : \A p \in dirs[n] : ~IsLive(p) =>
       p.by <= made /\ (p.by = made /\ pc # "idle" => Working /\ n = outdir)
  /\ \A n \in DOMAIN archives : \A p \in archives[n] : ~IsLive(p) =>
       p.by <= made /\ (p.by = made /\ pc # "idle" => Uploading /\ n = archive)

\* All the live logs sent so far are older than those of report k.
SentBefore(k) == \A s \in sent : \A q \in s.holds : IsLive(q) => q.by < k

\* Live logs that wait, and those a report has taken, are newer than all sent.
LiveOrder ==
  /\ \A s \in sent : s.by <= made /\ (pc # "idle" => s.by < made)
  /\ liveLogs <= made
  /\ liveLogs # 0 => SentBefore(liveLogs)
  /\ pc = "run" => \A p \in dirs[outdir] : ~IsLive(p)
  /\ Working => \A p \in dirs[outdir] : IsLive(p) =>
                  p.by <= made /\ liveLogs = 0 /\ SentBefore(p.by)

UInv ==
  /\ TypeOK /\ Shapes /\ Current /\ OwnDir /\ NotElsewhere /\ LiveOrder
  /\ OwnOutput /\ LiveLogsOnce /\ UploadLeavesNothing
-----------------------------------------------------------------------------
\* Output(r) is a piece, r's, and no live log.
LEMMA OutputProperties ==
  ASSUME NEW r \in Report
  PROVE  Output(r) \in Piece /\ Output(r).by = r /\ ~IsLive(Output(r))
  BY DEF Output, Piece, IsLive

LEMMA Numbers ==
  ASSUME UInv
  PROVE  /\ made \in Nat /\ liveLogs \in Nat
         /\ MaxReport \in Nat /\ Report = {r \in Nat : 1 <= r /\ r <= MaxReport}
         /\ \A p \in Piece : p.by \in Nat
         /\ \A s \in sent : s.by \in Nat
  BY ReportAssumption DEF UInv, TypeOK, Report, Piece

\* An output in some place is known to NotElsewhere.
LEMMA Instances ==
  ASSUME UInv
  PROVE  /\ \A r \in Report : \A n \in DOMAIN dirs : Output(r) \in dirs[n] =>
              r <= made /\ (r = made /\ pc # "idle" => Working /\ n = outdir)
         /\ \A r \in Report : \A n \in DOMAIN archives : Output(r) \in archives[n] =>
              r <= made /\ (r = made /\ pc # "idle" => Uploading /\ n = archive)
  BY OutputProperties DEF UInv, NotElsewhere

\* The event thread moves on inside the upload, or somebody else does
\* something: no file changes and the report goes on.
LEMMA QuietStep ==
  ASSUME UInv, TypeOK',
         UNCHANGED <<made, status, outdir, archive, dirs, archives, liveLogs, code, sent>>,
         pc' = pc \/ (Uploading /\ pc' \in {"check", "wait", "send", "sending"})
  PROVE  UInv'
<1>1. (pc' = "idle" <=> pc = "idle") /\ (pc' = "run" <=> pc = "run")
  BY DEF Uploading
<1>2. (Uploading' <=> Uploading) /\ (Working' <=> Working)
  BY DEF Uploading, Working
<1>3. Shapes' /\ OwnDir'
  BY <1>2 DEF UInv, Shapes, OwnDir
<1>4. Current'
  BY <1>1, <1>2 DEF UInv, Current
<1>5. NotElsewhere'
  BY <1>1, <1>2 DEF UInv, NotElsewhere
<1>6. LiveOrder'
  BY <1>1, <1>2 DEF UInv, LiveOrder, SentBefore
<1>7. (OwnOutput /\ LiveLogsOnce /\ UploadLeavesNothing)'
  BY DEF UInv, OwnOutput, LiveLogsOnce, UploadLeavesNothing
<1> QED BY <1>3, <1>4, <1>5, <1>6, <1>7 DEF UInv

\* A report ends before the upload and leaves its files where they are.
LEMMA EndStep ==
  ASSUME UInv, pc # "idle", NEW c \in Code \ {"0", "11"}, End(c),
         UNCHANGED <<clock, made, node, live, left, status, outdir, archive, dirs, archives,
                     liveLogs, lock, attempts, sent>>
  PROVE  UInv'
<1>1. pc' = "idle" /\ ~Working' /\ ~Uploading'
  BY DEF End, Working, Uploading
<1>2. made \in Report /\ code \in [Report -> Code] /\ code' = [code EXCEPT ![made] = c]
  BY DEF UInv, TypeOK, Current, End
<1>3. TypeOK'
  BY <1>1, <1>2 DEF UInv, TypeOK
<1>4. Shapes' /\ OwnDir' /\ Current'
  BY <1>1, <1>2, Numbers DEF UInv, Shapes, OwnDir, Current
<1>5. NotElsewhere' /\ LiveOrder'
  BY <1>1 DEF UInv, NotElsewhere, LiveOrder, SentBefore
<1>6. (OwnOutput /\ LiveLogsOnce)'
  BY DEF UInv, OwnOutput, LiveLogsOnce
<1>7. UploadLeavesNothing'
  BY <1>2 DEF UInv, UploadLeavesNothing
<1> QED BY <1>3, <1>4, <1>5, <1>6, <1>7 DEF UInv

LEMMA BeginStep ==
  ASSUME UInv, NEW n \in Node, NEW k \in 1..MaxTypes, NEW l \in BOOLEAN, Begin(n, k, l)
  PROVE  UInv'
<1>1. /\ pc = "idle" /\ pc' = "mkdir" /\ made' = made + 1 /\ made < MaxReport
      /\ UNCHANGED <<clock, outdir, archive, dirs, archives, liveLogs, lock, attempts, code, sent>>
  BY DEF Begin, fileVars
<1>2. made \in Nat /\ made' \in Report /\ made' \in Nat /\ MaxReport \in Nat
  BY <1>1, ReportAssumption DEF UInv, TypeOK, Report
<1>3. ~Working' /\ ~Uploading'
  BY <1>1 DEF Working, Uploading
<1>4. TypeOK'
  <2>1. made' \in 0..MaxReport
    BY <1>1, <1>2
  <2>2. left' \in Nat /\ node' \in Node
    BY ReportAssumption DEF Begin
  <2>3. live' \in BOOLEAN /\ status' \in BOOLEAN
    BY Zenon DEF Begin
  <2> QED BY <1>1, <2>1, <2>2, <2>3 DEF UInv, TypeOK
<1>5. Shapes' /\ OwnDir'
  BY <1>1, <1>3 DEF UInv, Shapes, OwnDir
<1>6. Current'
  <2>1. \A r \in Report : r > made' => r > made
    BY <1>1, <1>2, Numbers
  <2>2. code[made'] = "none"
    BY <1>1, <1>2 DEF UInv, Current
  <2> QED BY <1>1, <1>2, <1>3, <2>1, <2>2 DEF UInv, Current, Begin
<1>7. NotElsewhere'
  <2>1. ASSUME NEW p \in Piece, p.by <= made PROVE p.by <= made' /\ p.by # made'
    BY <1>1, <1>2, <2>1, Numbers
  <2>2. /\ \A m \in DOMAIN dirs : dirs[m] \subseteq Piece
        /\ \A m \in DOMAIN archives : archives[m] \subseteq Piece
    BY DEF UInv, TypeOK
  <2> QED BY <1>1, <2>1, <2>2 DEF UInv, NotElsewhere
<1>8. LiveOrder'
  <2>1. \A s \in sent : s.by \in Nat /\ s.by <= made
    BY Numbers DEF UInv, LiveOrder
  <2>2. \A s \in sent : s.by <= made' /\ s.by < made'
    BY <1>1, <1>2, <2>1
  <2>3. liveLogs \in Nat /\ liveLogs <= made
    BY Numbers DEF UInv, LiveOrder
  <2>4. liveLogs' <= made'
    BY <1>1, <1>2, <2>3
  <2> QED BY <1>1, <1>3, <2>2, <2>4 DEF UInv, LiveOrder, SentBefore
<1>9. (OwnOutput /\ LiveLogsOnce /\ UploadLeavesNothing)'
  BY <1>1 DEF UInv, OwnOutput, LiveLogsOnce, UploadLeavesNothing
<1> QED BY <1>4, <1>5, <1>6, <1>7, <1>8, <1>9 DEF UInv

\* A new directory is empty, so the report at hand owns what will be in it.
LEMMA MakeDirStep ==
  ASSUME UInv, MakeDir \/ ChdirFails
  PROVE  UInv'
<1> DEFINE d == <<node, clock>>
<1>1. /\ pc = "mkdir" /\ d \notin DOMAIN dirs /\ outdir' = d /\ dirs' = Bind(dirs, d, {})
      /\ UNCHANGED <<clock, made, node, live, left, status, archive, archives, liveLogs, lock,
                     attempts, sent>>
      /\ \/ pc' = "run" /\ code' = code
         \/ pc' = "idle" /\ code' = [code EXCEPT ![made] = "chdir"]
  BY DEF MakeDir, ChdirFails, End, thisVars
<1>2. /\ made \in Report /\ code \in [Report -> Code] /\ code[made] = "none"
      /\ ~Working /\ ~Uploading
  BY <1>1 DEF UInv, TypeOK, Current, Working, Uploading
<1>3. d \in Name
  BY DEF UInv, TypeOK, Name
<1> HIDE DEF d
<1>4. /\ DOMAIN dirs' = DOMAIN dirs \union {d} /\ dirs'[d] = {}
      /\ \A m \in DOMAIN dirs : m # d => dirs'[m] = dirs[m]
      /\ dirs' = [m \in DOMAIN dirs' |-> dirs'[m]]
  <2>1. dirs' = Bind(dirs, d, {})
    BY <1>1
  <2> QED BY <2>1 DEF Bind
<1>5. \A m \in DOMAIN dirs' : \A p \in dirs'[m] : m \in DOMAIN dirs /\ dirs'[m] = dirs[m]
  BY <1>4
<1>6. \A m \in DOMAIN dirs' : dirs'[m] \subseteq Piece
  BY <1>5 DEF UInv, TypeOK
<1>7. ~Uploading' /\ (Working' => pc' = "run")
  BY <1>1 DEF Uploading, Working
<1>8. "chdir" \in Code /\ code' \in [Report -> Code] /\ code'[made] \notin {"0", "11"}
  BY <1>1, <1>2 DEF Code
<1>9. TypeOK'
  BY <1>1, <1>3, <1>4, <1>6, <1>8 DEF UInv, TypeOK
<1>10. Shapes'
  BY <1>1, <1>4, <1>6 DEF UInv, Shapes
<1>11. Current'
  BY <1>1, <1>2, <1>4, <1>7, Numbers DEF UInv, Current
<1>12. OwnDir'
  <2>1. ~status
    BY <1>1 DEF UInv, Current
  <2> QED BY <1>1, <1>4, <1>7, <2>1 DEF UInv, OwnDir
<1>13. NotElsewhere'
  BY <1>1, <1>2, <1>5 DEF UInv, NotElsewhere
<1>14. LiveOrder'
  BY <1>1, <1>4, <1>7 DEF UInv, LiveOrder, SentBefore
<1>15. (OwnOutput /\ LiveLogsOnce)'
  BY <1>1 DEF UInv, OwnOutput, LiveLogsOnce
<1>16. UploadLeavesNothing'
  BY <1>1, <1>2, <1>5, <1>8 DEF UInv, UploadLeavesNothing
<1> QED BY <1>9, <1>10, <1>11, <1>12, <1>13, <1>14, <1>15, <1>16 DEF UInv

\* All live logs sent are older than a report that is under way.
LEMMA LiveSentEarlier ==
  ASSUME UInv, pc # "idle"
  PROVE  SentBefore(made)
<1> SUFFICES ASSUME NEW s \in sent, NEW q \in s.holds, IsLive(q) PROVE q.by < made
  BY DEF SentBefore
<1>1. q.by <= s.by /\ s.by < made
  BY DEF UInv, LiveLogsOnce, LiveOrder, IsLive
<1>2. q.by \in Nat /\ s.by \in Nat /\ made \in Nat
  <2>1. q \in Piece
    BY DEF UInv, TypeOK
  <2> QED BY <2>1, Numbers
<1> QED BY <1>1, <1>2

\* Commands write to the directory of the report, and perhaps live logs.
LEMMA RunStep ==
  ASSUME UInv, RunCommands \/ RefuseCommands
  PROVE  UInv'
<1>1. /\ pc = "run" /\ pc' = "run" /\ left' = left - 1 /\ left > 0
      /\ clock' \in {clock, clock + 1}
      /\ liveLogs' \in {liveLogs, made}
      /\ UNCHANGED <<made, node, live, outdir, archive, archives, lock, attempts, code, sent>>
  BY DEF RunCommands, RefuseCommands, thisVars
<1>2. /\ status' \in BOOLEAN
      /\ dirs' \in {dirs, [dirs EXCEPT ![outdir] = @ \union {Output(made)}]}
      /\ status' => dirs' = [dirs EXCEPT ![outdir] = @ \union {Output(made)}]
  BY DEF RunCommands, RefuseCommands
<1>3. /\ Working /\ Working' /\ ~Uploading /\ ~Uploading'
      /\ made \in Report /\ outdir \in DOMAIN dirs
      /\ dirs \in [DOMAIN dirs -> SUBSET Piece]
  BY <1>1 DEF UInv, Working, Uploading, Current, Shapes
<1>4. Output(made) \in Piece /\ Output(made).by = made /\ ~IsLive(Output(made))
  BY <1>3, OutputProperties
<1>5. /\ DOMAIN dirs' = DOMAIN dirs
      /\ dirs' \in [DOMAIN dirs -> SUBSET Piece]
      /\ \A m \in DOMAIN dirs : m # outdir => dirs'[m] = dirs[m]
      /\ \A p \in dirs'[outdir] : p \in dirs[outdir] \/ p = Output(made)
      /\ status' => Output(made) \in dirs'[outdir]
  BY <1>2, <1>3, <1>4
<1>6. TypeOK'
  <2>1. left' \in Nat /\ clock' \in Nat /\ liveLogs' \in 0..MaxReport
    BY <1>1, <1>3, Numbers DEF UInv, TypeOK
  <2>2. DOMAIN dirs' \subseteq Name /\ \A n \in DOMAIN dirs' : dirs'[n] \subseteq Piece
    BY <1>5 DEF UInv, TypeOK
  <2> QED BY <1>1, <1>2, <2>1, <2>2 DEF UInv, TypeOK
<1>7. Shapes'
  BY <1>1, <1>5 DEF UInv, Shapes
<1>8. Current'
  BY <1>1, <1>3, <1>5 DEF UInv, Current
<1>9. OwnDir'
  BY <1>1, <1>3, <1>4, <1>5 DEF UInv, OwnDir
<1>10. NotElsewhere'
  <2>1. made <= made
    BY Numbers
  <2>2. ASSUME NEW m \in DOMAIN dirs', NEW p \in dirs'[m], ~IsLive(p)
        PROVE  p.by <= made /\ (p.by = made => m = outdir)
    <3>1. CASE m = outdir
      BY <1>3, <1>4, <1>5, <2>1, <2>2, <3>1 DEF UInv, OwnDir
    <3>2. CASE m # outdir
      BY <1>1, <1>5, <2>2, <3>2 DEF UInv, NotElsewhere
    <3> QED BY <3>1, <3>2
  <2> QED BY <1>1, <1>3, <2>2 DEF UInv, NotElsewhere
<1>11. LiveOrder'
  <2>1. made <= made /\ liveLogs' <= made
    BY <1>1, Numbers DEF UInv, LiveOrder
  <2>2. liveLogs' # 0 => SentBefore(liveLogs')
    BY <1>1, LiveSentEarlier DEF UInv, LiveOrder
  <2>3. \A p \in dirs'[outdir] : ~IsLive(p)
    BY <1>1, <1>4, <1>5 DEF UInv, LiveOrder
  <2> QED BY <1>1, <2>1, <2>2, <2>3 DEF UInv, LiveOrder, SentBefore
<1>12. (OwnOutput /\ LiveLogsOnce)'
  BY <1>1 DEF UInv, OwnOutput, LiveLogsOnce
<1>13. UploadLeavesNothing'
  <2>1. code[made] = "none"
    BY <1>1 DEF UInv, Current
  <2>2. \A r \in Report : r # made => Output(r) # Output(made)
    BY <1>3, OutputProperties
  <2> QED BY <1>1, <1>5, <2>1, <2>2 DEF UInv, UploadLeavesNothing
<1> QED BY <1>6, <1>7, <1>8, <1>9, <1>10, <1>11, <1>12, <1>13 DEF UInv

\* Live logs that were waiting may join the directory.
LEMMA GatherStep ==
  ASSUME UInv, NEW moved \in BOOLEAN, Gather(moved)
  PROVE  UInv'
<1> DEFINE lp == [by |-> liveLogs, what |-> "live"]
<1>1. /\ pc = "run" /\ pc' = "name" /\ status /\ archive' = <<node, clock>>
      /\ UNCHANGED <<clock, made, node, live, left, status, outdir, archives, lock, attempts,
                     code, sent>>
      /\ \/ /\ liveLogs # 0 /\ liveLogs' = 0
            /\ dirs' = [dirs EXCEPT ![outdir] = @ \union {lp}]
         \/ UNCHANGED <<dirs, liveLogs>>
  BY DEF Gather, HandleLiveLogs, thisVars
<1>2. /\ Working /\ Working' /\ ~Uploading /\ ~Uploading'
      /\ made \in Report /\ outdir \in DOMAIN dirs
      /\ dirs \in [DOMAIN dirs -> SUBSET Piece]
  BY <1>1 DEF UInv, Working, Uploading, Current, Shapes
<1>3. archive' \in Name
  BY <1>1 DEF UInv, TypeOK, Name
<1>4. /\ lp.by = liveLogs /\ IsLive(lp)
      /\ liveLogs # 0 => lp \in Piece
  BY ReportAssumption DEF UInv, TypeOK, Piece, IsLive, Report
<1> HIDE DEF lp
<1>5. /\ DOMAIN dirs' = DOMAIN dirs
      /\ dirs' \in [DOMAIN dirs -> SUBSET Piece]
      /\ \A m \in DOMAIN dirs : dirs[m] \subseteq dirs'[m]
      /\ \A m \in DOMAIN dirs : \A p \in dirs'[m] :
           p \in dirs[m] \/ (m = outdir /\ p = lp /\ liveLogs # 0 /\ liveLogs' = 0)
  BY <1>1, <1>2, <1>4
<1>6. TypeOK'
  <2>1. DOMAIN dirs' \subseteq Name /\ \A n \in DOMAIN dirs' : dirs'[n] \subseteq Piece
    BY <1>5 DEF UInv, TypeOK
  <2>2. liveLogs' \in 0..MaxReport
    BY <1>1, Numbers DEF UInv, TypeOK
  <2> QED BY <1>1, <1>3, <2>1, <2>2 DEF UInv, TypeOK
<1>7. Shapes'
  BY <1>1, <1>5 DEF UInv, Shapes
<1>8. Current'
  BY <1>1, <1>2, <1>3, <1>5 DEF UInv, Current
<1>9. OwnDir'
  BY <1>1, <1>2, <1>4, <1>5 DEF UInv, OwnDir
<1>10. NotElsewhere'
  BY <1>1, <1>2, <1>4, <1>5 DEF UInv, NotElsewhere
<1>11. LiveOrder'
  <2>1. \A p \in dirs'[outdir] : IsLive(p) => p = lp /\ liveLogs # 0 /\ liveLogs' = 0
    BY <1>1, <1>2, <1>5 DEF UInv, LiveOrder
  <2>2. liveLogs # 0 => SentBefore(liveLogs) /\ liveLogs <= made
    BY DEF UInv, LiveOrder
  <2>3. liveLogs' <= made /\ (liveLogs' # 0 => liveLogs' = liveLogs)
    BY <1>1, Numbers DEF UInv, LiveOrder
  <2> QED BY <1>1, <1>4, <2>1, <2>2, <2>3 DEF UInv, LiveOrder, SentBefore
<1>12. (OwnOutput /\ LiveLogsOnce)'
  BY <1>1 DEF UInv, OwnOutput, LiveLogsOnce
<1>13. UploadLeavesNothing'
  <2>1. \A r \in Report : Output(r) # lp
    BY <1>4, OutputProperties
  <2> QED BY <1>1, <1>5, <2>1 DEF UInv, UploadLeavesNothing
<1> QED BY <1>6, <1>7, <1>8, <1>9, <1>10, <1>11, <1>12, <1>13 DEF UInv

\* The archive is written over whatever had its name, whole or torn.
LEMMA ArchiveStep ==
  ASSUME UInv, CreateArchive \/ ArchiveFails
  PROVE  UInv'
<1>1. /\ pc = "name"
      /\ UNCHANGED <<clock, made, node, live, left, status, outdir, archive, dirs, liveLogs,
                     lock, attempts, sent>>
  BY DEF CreateArchive, ArchiveFails, thisVars
<1>2. \/ /\ pc' = "check" /\ code' = code /\ archives' = Bind(archives, archive, dirs[outdir])
      \/ /\ pc' = "idle" /\ code' = [code EXCEPT ![made] = "10"]
         /\ archives' = archives \/ archives' = Bind(archives, archive, {})
  BY DEF CreateArchive, ArchiveFails, End
<1>3. /\ Working /\ ~Uploading /\ (Working' <=> pc' = "check") /\ (Uploading' <=> pc' = "check")
      /\ made \in Report /\ outdir \in DOMAIN dirs /\ archive \in Name
      /\ dirs[outdir] \subseteq Piece
      /\ code \in [Report -> Code] /\ code[made] = "none"
  BY <1>1, <1>2 DEF UInv, Working, Uploading, Current, TypeOK
<1>4. /\ DOMAIN archives' \subseteq DOMAIN archives \union {archive}
      /\ archives' = [m \in DOMAIN archives' |-> archives'[m]]
      /\ \A m \in DOMAIN archives' : m # archive => m \in DOMAIN archives /\ archives'[m] = archives[m]
      /\ archive \in DOMAIN archives' =>
           \/ archive \in DOMAIN archives /\ archives'[archive] = archives[archive]
           \/ archives'[archive] \subseteq dirs[outdir]
      /\ pc' = "check" => archive \in DOMAIN archives' /\ archives'[archive] = dirs[outdir]
  <2>1. CASE archives' = archives
    BY <1>2, <2>1 DEF UInv, Shapes, Bind
  <2>2. ASSUME NEW c, c \subseteq dirs[outdir], archives' = Bind(archives, archive, c)
        PROVE  /\ DOMAIN archives' = DOMAIN archives \union {archive}
               /\ archives' = [m \in DOMAIN archives' |-> archives'[m]]
               /\ \A m \in DOMAIN archives' : m # archive => m \in DOMAIN archives /\ archives'[m] = archives[m]
               /\ archives'[archive] = c
    BY <2>2 DEF Bind
  <2>3. CASE pc' = "check"
    BY <1>2, <2>2, <2>3
  <2>4. CASE pc' # "check" /\ archives' # archives
    <3>1. archives' = Bind(archives, archive, {})
      BY <1>2, <2>4
    <3> QED BY <2>2, <2>4, <3>1
  <2> QED BY <2>1, <2>3, <2>4
<1>5. \A m \in DOMAIN archives' : archives'[m] \subseteq Piece
  BY <1>3, <1>4 DEF UInv, TypeOK
<1>6. code' \in [Report -> Code] /\ \A r \in Report : code'[r] \in {"0", "11"} => code[r] = code'[r]
  BY <1>2, <1>3 DEF Code
<1>7. TypeOK'
  <2>1. pc' \in {"check", "idle"}
    BY <1>2
  <2> QED BY <1>1, <1>3, <1>4, <1>5, <1>6, <2>1 DEF UInv, TypeOK
<1>8. Shapes'
  BY <1>1, <1>4, <1>5 DEF UInv, Shapes
<1>9. Current'
  <2>1. \A r \in Report : r > made => code'[r] = "none"
    BY <1>2, <1>3, Numbers DEF UInv, Current
  <2>2. pc' = "check" \/ pc' = "idle"
    BY <1>2
  <2>3. pc' = "check" => code' = code
    BY <1>2
  <2> QED BY <1>1, <1>3, <1>4, <2>1, <2>2, <2>3 DEF UInv, Current
<1>10. OwnDir'
  BY <1>1, <1>3 DEF UInv, OwnDir
<1>11. NotElsewhere'
  <2>1. made <= made /\ \A p \in dirs[outdir] : ~IsLive(p) => p.by = made
    BY <1>3, Numbers DEF UInv, OwnDir
  <2>2. ASSUME NEW m \in DOMAIN archives', NEW p \in archives'[m], ~IsLive(p)
        PROVE  p.by <= made /\ (p.by = made => m = archive)
    BY <1>1, <1>3, <1>4, <2>1, <2>2 DEF UInv, NotElsewhere
  <2>3. pc' # "idle" => pc' = "check"
    BY <1>2
  <2>4. \A m \in DOMAIN dirs : \A p \in dirs[m] : ~IsLive(p) =>
          p.by <= made /\ (p.by = made => m = outdir)
    BY <1>1 DEF UInv, NotElsewhere
  <2> QED BY <1>1, <1>3, <2>2, <2>3, <2>4 DEF NotElsewhere
<1>12. LiveOrder'
  <2>1. pc' = "check" \/ pc' = "idle"
    BY <1>2
  <2> QED BY <1>1, <1>3, <2>1 DEF UInv, LiveOrder, SentBefore
<1>13. (OwnOutput /\ LiveLogsOnce)'
  BY <1>1 DEF UInv, OwnOutput, LiveLogsOnce
<1>14. UploadLeavesNothing'
  BY <1>1, <1>3, <1>4, <1>6 DEF UInv, UploadLeavesNothing
<1> QED BY <1>7, <1>8, <1>9, <1>10, <1>11, <1>12, <1>13, <1>14 DEF UInv

\* The upload ends, well or badly, and both files go.
LEMMA CleanUpStep ==
  ASSUME UInv, Uploading, NEW c \in {"0", "11"}, CleanUp(c),
         UNCHANGED <<clock, made, node, live, left, status, outdir, archive, liveLogs, attempts>>,
         lock' \in {"free", lock},
         sent' \in {sent, sent \union {[by |-> made, holds |-> archives[archive]]}}
  PROVE  UInv'
<1>1. /\ pc' = "idle" /\ code' = [code EXCEPT ![made] = c]
      /\ ~Working' /\ ~Uploading' /\ Working /\ pc # "idle"
  BY DEF CleanUp, End, Working, Uploading
<1>2. /\ made \in Report /\ code \in [Report -> Code] /\ c \in Code
      /\ outdir \in DOMAIN dirs /\ archives[archive] = dirs[outdir] /\ status
      /\ dirs[outdir] \subseteq Piece
  BY <1>1 DEF UInv, TypeOK, Current, Uploading, Code
<1>3. /\ DOMAIN dirs' = DOMAIN dirs \ {outdir}
      /\ \A m \in DOMAIN dirs' : dirs'[m] = dirs[m]
      /\ dirs' = [m \in DOMAIN dirs' |-> dirs'[m]]
  BY DEF CleanUp, Unbind
<1>4. /\ DOMAIN archives' = DOMAIN archives \ {archive}
      /\ \A m \in DOMAIN archives' : archives'[m] = archives[m]
      /\ archives' = [m \in DOMAIN archives' |-> archives'[m]]
  BY DEF CleanUp, Unbind
<1>5. PICK s : s.by = made /\ s.holds = dirs[outdir] /\ s \in [by : Report, holds : SUBSET Piece]
               /\ sent' \in {sent, sent \union {s}}
  BY <1>2
<1>6. TypeOK'
  <2>1. code' \in [Report -> Code]
    BY <1>1, <1>2
  <2>2. /\ DOMAIN dirs' \subseteq Name /\ \A n \in DOMAIN dirs' : dirs'[n] \subseteq Piece
        /\ DOMAIN archives' \subseteq Name /\ \A n \in DOMAIN archives' : archives'[n] \subseteq Piece
    BY <1>3, <1>4 DEF UInv, TypeOK
  <2>3. sent' \subseteq [by : Report, holds : SUBSET Piece]
    BY <1>5 DEF UInv, TypeOK
  <2>4. lock' \in {"free", "rrd", "other"}
    BY DEF UInv, TypeOK
  <2> QED BY <1>1, <2>1, <2>2, <2>3, <2>4 DEF UInv, TypeOK
<1>7. Shapes'
  BY <1>3, <1>4 DEF UInv, Shapes
<1>8. Current' /\ OwnDir'
  BY <1>1, <1>2, Numbers DEF UInv, Current, OwnDir
<1>9. NotElsewhere'
  BY <1>1, <1>3, <1>4 DEF UInv, NotElsewhere
<1>10. /\ Output(made) \in s.holds
       /\ \A p \in s.holds : /\ ~IsLive(p) => p.by = made
                             /\ IsLive(p) => p.by <= made /\ liveLogs = 0 /\ SentBefore(p.by)
  BY <1>1, <1>2, <1>5 DEF UInv, OwnDir, LiveOrder
<1>11. OwnOutput'
  <2>1. \A p \in s.holds : p.what = "output" => ~IsLive(p)
    BY DEF IsLive
  <2> QED BY <1>5, <1>10, <2>1 DEF UInv, OwnOutput
<1>12. LiveOrder'
  <2>1. made <= made
    BY Numbers
  <2>2. \A t \in sent' : t.by <= made
    BY <1>5, <2>1 DEF UInv, LiveOrder
  <2>3. liveLogs # 0 => \A t \in sent' : \A q \in t.holds : IsLive(q) => q.by < liveLogs
    BY <1>5, <1>10 DEF UInv, LiveOrder, SentBefore
  <2> QED BY <1>1, <2>2, <2>3 DEF UInv, LiveOrder, SentBefore
<1>13. LiveLogsOnce'
  <2> SUFFICES ASSUME NEW x \in sent', NEW y \in sent', NEW p \in x.holds, NEW q \in y.holds,
                      p.what = "live", q.what = "live"
               PROVE  p.by <= x.by /\ (x.by < y.by => p.by < q.by)
    BY DEF LiveLogsOnce
  <2>1. IsLive(p) /\ IsLive(q)
    BY DEF IsLive
  <2>2. \A t \in sent : t.by < made
    BY <1>1 DEF UInv, LiveOrder
  <2>3. made \in Nat /\ \A t \in sent : t.by \in Nat
    BY Numbers
  <2>4. CASE x \in sent /\ y \in sent
    BY <2>4 DEF UInv, LiveLogsOnce
  <2>5. CASE x \in sent /\ y = s
    BY <1>10, <2>1, <2>5 DEF SentBefore, UInv, LiveLogsOnce
  <2>6. CASE x = s /\ y \in sent
    BY <1>5, <1>10, <2>1, <2>2, <2>3, <2>6
  <2>7. CASE x = s /\ y = s
    BY <1>5, <1>10, <2>1, <2>3, <2>7
  <2> QED BY <1>5, <2>4, <2>5, <2>6, <2>7
<1>14. UploadLeavesNothing'
  <2>1. \A r \in Report : r # made => code'[r] = code[r]
    BY <1>1, <1>2
  <2>2. /\ \A n \in DOMAIN dirs' : Output(made) \notin dirs'[n]
        /\ \A n \in DOMAIN archives' : Output(made) \notin archives'[n]
    BY <1>1, <1>2, <1>3, <1>4, Instances
  <2> QED BY <1>3, <1>4, <2>1, <2>2 DEF UInv, UploadLeavesNothing
<1> QED BY <1>6, <1>7, <1>8, <1>9, <1>11, <1>12, <1>13, <1>14 DEF UInv

LEMMA NextUInv == UInv /\ [Next]_vars => UInv'
<1> SUFFICES ASSUME UInv, [Next]_vars PROVE UInv'
  OBVIOUS
<1>1. CASE \E n \in Node, k \in 1..MaxTypes, l \in BOOLEAN : Begin(n, k, l)
  BY <1>1, BeginStep
<1>2. CASE MakeDir \/ ChdirFails \/ RunCommands \/ RefuseCommands
  BY <1>2, MakeDirStep, RunStep
<1>3. CASE MakeDirFails \/ SkipUpload \/ GatherFails \/ NameFails
  <2>1. /\ pc # "idle"
        /\ UNCHANGED <<clock, made, node, live, left, status, outdir, archive, dirs, archives,
                       liveLogs, lock, attempts, sent>>
    BY <1>3 DEF MakeDirFails, SkipUpload, GatherFails, NameFails, thisVars, fileVars
  <2>2. End("mkdir") \/ End("skipped") \/ End("3-8") \/ End("9")
    BY <1>3 DEF MakeDirFails, SkipUpload, GatherFails, NameFails
  <2>3. {"mkdir", "skipped", "3-8", "9"} \subseteq Code \ {"0", "11"}
    BY DEF Code
  <2> QED BY <2>1, <2>2, <2>3, EndStep
<1>4. CASE (\E moved \in BOOLEAN : Gather(moved)) \/ CreateArchive \/ ArchiveFails
  BY <1>4, GatherStep, ArchiveStep
<1>5. CASE CheckFails \/ LockTimeout \/ SendRefused \/ SendSucceeds \/ SendFails
  <2>1. /\ Uploading
        /\ UNCHANGED <<clock, made, node, live, left, status, outdir, archive, liveLogs, attempts>>
        /\ lock' \in {"free", lock}
        /\ sent' \in {sent, sent \union {[by |-> made, holds |-> archives[archive]]}}
    BY <1>5 DEF CheckFails, LockTimeout, SendRefused, SendSucceeds, SendFails, Uploading, thisVars
  <2>2. CleanUp("0") \/ CleanUp("11")
    BY <1>5 DEF CheckFails, LockTimeout, SendRefused, SendSucceeds, SendFails
  <2> QED BY <2>1, <2>2, CleanUpStep
<1>6. CASE \/ FirstCheck \/ LockCleared \/ WaitForLock \/ SendStart
           \/ OtherLocks \/ OtherUnlocks \/ Tick \/ UNCHANGED vars
  <2>1. /\ UNCHANGED <<made, node, live, left, status, outdir, archive, dirs, archives, liveLogs,
                       code, sent>>
        /\ pc' = pc \/ (Uploading /\ pc' \in {"check", "wait", "send", "sending"})
    BY <1>6 DEF FirstCheck, LockCleared, WaitForLock, SendStart, OtherLocks, OtherUnlocks, Tick,
                vars, thisVars, fileVars, Uploading
  <2>2. clock' \in Nat /\ lock' \in {"free", "rrd", "other"} /\ attempts' \in 0..MaxAttempts
    BY <1>6, ReportAssumption
       DEF UInv, TypeOK, FirstCheck, LockCleared, WaitForLock, SendStart, OtherLocks,
           OtherUnlocks, Tick, vars
  <2>3. TypeOK'
    BY <2>1, <2>2 DEF UInv, TypeOK
  <2> QED BY <2>1, <2>3, QuietStep
<1> QED BY <1>1, <1>2, <1>3, <1>4, <1>5, <1>6
        DEF Next, EventThread, CheckIssueNodeInfo, Orchestrate, Execute

LEMMA InitUInv == Init => UInv
<1> SUFFICES ASSUME Init PROVE UInv
  OBVIOUS
<1>1. /\ DOMAIN dirs = {} /\ DOMAIN archives = {} /\ sent = {} /\ pc = "idle" /\ liveLogs = 0
      /\ made = 0 /\ code = [r \in Report |-> "none"]
  BY DEF Init
<1>2. TypeOK
  <2>1. code \in [Report -> Code]
    BY <1>1 DEF Code
  <2>2. made \in 0..MaxReport /\ liveLogs \in 0..MaxReport /\ attempts \in 0..MaxAttempts
    BY ReportAssumption DEF Init
  <2>3. live \in BOOLEAN /\ status \in BOOLEAN
    BY Zenon DEF Init
  <2> QED BY <1>1, <2>1, <2>2, <2>3 DEF Init, TypeOK
<1>3. Shapes
  BY DEF Init, Shapes
<1>4. Current /\ OwnDir /\ NotElsewhere /\ LiveOrder
  BY <1>1 DEF Current, OwnDir, NotElsewhere, LiveOrder, Working, Uploading
<1>5. OwnOutput /\ LiveLogsOnce /\ UploadLeavesNothing
  BY <1>1 DEF OwnOutput, LiveLogsOnce, UploadLeavesNothing
<1> QED BY <1>2, <1>3, <1>4, <1>5 DEF UInv

LEMMA UInvAlways == Spec => []UInv
  BY InitUInv, NextUInv, PTL DEF Spec
-----------------------------------------------------------------------------
\* Reports, names, files and the lock keep their shapes, and the waiting loop
\* of rrd_upload_wait_for_lock() never exceeds its attempts.
THEOREM ReportTypeCorrect == Spec => []TypeOK
  BY UInvAlways, PTL DEF UInv

\* What is uploaded for a report holds the output of its own commands and of
\* no other's, although two reports of one second share names and failed ones
\* leave directories and archives behind.
THEOREM UploadsOwnOutput == Spec => []OwnOutput
  BY UInvAlways, PTL DEF UInv

\* No live logs are sent twice and none after newer ones.
THEOREM LiveLogsSentOnce == Spec => []LiveLogsOnce
  BY UInvAlways, PTL DEF UInv

\* Of a report whose upload was attempted nothing stays under /tmp/rrd.
THEOREM NothingLeftBehind == Spec => []UploadLeavesNothing
  BY UInvAlways, PTL DEF UInv
=============================================================================
