--------------------------- MODULE NtpPatchProofs ---------------------------
(***************************************************************************)
(* Why status may take every library that is not the override file for the *)
(* stock one: whatever commands, crashes, reboots and repeated adb calls   *)
(* came before, the app runs on no override but the file that is there.    *)
(* And why apply and revert may say that they succeeded.                   *)
(***************************************************************************)
EXTENDS NtpPatch, SequenceTheorems, TLAPS

(* The mounts are all of the file that is there now, so apply pushes a new  *)
(* one, and revert removes it, only when nothing is mounted.                *)
MountsOfFile ==
    /\ mounts \in Seq({file[1]})
    /\ mounts # << >> => file # << >>

NothingMounted ==
    /\ pc \in {"apply: pull", "apply: push", "apply: mount", "revert: remove"} => mounts = << >>
    /\ pc \in {"revert: present", "revert: ps", "revert: stop"} /\ ~run.mounted => mounts = << >>

AppOnFile ==
    app \in {NoApp, Stock} \/ (mounts # << >> /\ app = file[1].inode)

Types ==
    /\ inodes \in Nat
    /\ file # << >> => file[1].inode \in Nat \ {0}
    /\ run.n \in Nat /\ run.mounted \in BOOLEAN
    /\ {"n", "mounted"} \subseteq DOMAIN run

IInv == Types /\ MountsOfFile /\ NothingMounted /\ AppOnFile

(* The last mount is of the file, and without it the others still are.      *)
LEMMA UnmountOne ==
  ASSUME NEW S, NEW s \in Seq(S), s # << >>
  PROVE  Front(s) \in Seq(S) /\ Last(s) \in S
<1>1. Len(s) \in Nat \ {0} BY EmptySeq
<1>2. Last(s) \in S BY <1>1, ElementOfSeq DEF Last
<1>3. Front(s) \in Seq(S) BY <1>1, SubSeqProperties DEF Front
<1>. QED BY <1>2, <1>3

LEMMA InitInv == Init => IInv
  BY EmptySeq DEF Init, Idle, Nothing, IInv, Types, MountsOfFile, NothingMounted, AppOnFile,
                  Stock, NoApp

LEMMA IdleRun ==
  ASSUME NEW n \in Nat
  PROVE  Idle(n).n = n /\ Idle(n).mounted = FALSE /\ {"n", "mounted"} \subseteq DOMAIN Idle(n)
  BY DEF Idle

\* Neither file nor mounts change, and the app is stopped or started or neither.
LEMMA QuietStep ==
  ASSUME IInv, UNCHANGED <<file, mounts, inodes>>,
         app' \in {app, NoApp, Resolved.inode}, Types',
         NothingMounted'
  PROVE  IInv'
<1>1. MountsOfFile' BY DEF IInv, MountsOfFile
<1>2. AppOnFile'
  <2>1. CASE app' = Resolved.inode /\ mounts # << >>
    <3>1. Last(mounts) = file[1] BY <2>1, UnmountOne DEF IInv, MountsOfFile
    <3>. QED BY <2>1, <3>1 DEF Resolved, AppOnFile
  <2>2. CASE app' = Resolved.inode /\ mounts = << >>
    BY <2>2 DEF Resolved, AppOnFile
  <2>3. CASE app' \in {app, NoApp} BY <2>3 DEF IInv, AppOnFile
  <2>. QED BY <2>1, <2>2, <2>3
<1>. QED BY <1>1, <1>2 DEF IInv

LEMMA FailedStep ==
  ASSUME IInv, UNCHANGED device, \E s : Ends(s)
  PROVE  IInv'
<1>1. run' = Idle(run.n) /\ pc' = "idle" BY DEF Ends
<1>2. Types' /\ NothingMounted' BY <1>1, IdleRun DEF IInv, Types, NothingMounted, device
<1>. QED BY <1>2, QuietStep DEF device

LEMMA StopStep ==
  ASSUME IInv, ApplyStopsOld \/ ApplyStops \/ RevertStops
  PROVE  IInv'
<1>1. UNCHANGED <<file, mounts, inodes, run>> /\ app' \in {app, NoApp}
  BY DEF ApplyStopsOld, ApplyStops, RevertStops, StopAt, device, Goto
<1>2. pc' \in {"apply: unmount", "apply: start", "revert: unmount"}
      \/ (pc' = "revert: remove" /\ pc = "revert: stop" /\ ~run.mounted)
  BY DEF ApplyStopsOld, ApplyStops, RevertStops, StopAt, Goto
<1>3. Types' /\ NothingMounted' BY <1>1, <1>2 DEF IInv, Types, NothingMounted
<1>. QED BY <1>1, <1>3, QuietStep

LEMMA StartStep ==
  ASSUME IInv, ApplyStarts \/ RevertStarts \/ ApplyBack \/ RevertBack
  PROVE  IInv'
<1>1. CASE UNCHANGED device /\ \E s : Ends(s) BY <1>1, FailedStep
<1>2. CASE /\ UNCHANGED <<file, mounts, inodes, run>> /\ app' \in {app, Resolved.inode}
           /\ pc' \in {"apply: back", "revert: back", "apply: check", "revert: check"}
  <2>1. Types' /\ NothingMounted' BY <1>2 DEF IInv, Types, NothingMounted
  <2>. QED BY <1>2, <2>1, QuietStep
<1>3. CASE ApplyStarts \/ RevertStarts
  BY <1>2, <1>3 DEF ApplyStarts, RevertStarts, StartAt, Goto
<1>4. CASE ApplyBack \/ RevertBack
  BY <1>1, <1>2, <1>4 DEF ApplyBack, RevertBack, BackAt, Goto, Continue
<1>. QED BY <1>3, <1>4

LEMMA UnmountStep ==
  ASSUME IInv, ApplyUnmounts \/ RevertUnmounts
  PROVE  IInv'
<1>1. CASE mounts = << >> /\ UNCHANGED device /\ UNCHANGED run
           /\ pc' \in {"apply: pull", "revert: remove"}
  <2>1. Types' /\ NothingMounted' BY <1>1 DEF IInv, Types, NothingMounted, device
  <2>. QED BY <1>1, <2>1, QuietStep DEF device
<1>2. CASE /\ mounts # << >> /\ pc \in {"apply: unmount", "revert: unmount"}
           /\ mounts' = (IF Busy THEN mounts ELSE Front(mounts))
           /\ run' = [run EXCEPT !.tries = @ + 1]
           /\ UNCHANGED <<flash, file, app, service, inodes, pc>>
  <2>1. Types' /\ NothingMounted' BY <1>2 DEF IInv, Types, NothingMounted
  <2>2. CASE Busy
    BY <1>2, <2>1, <2>2, QuietStep
  <2>3. CASE ~Busy
    <3>1. mounts' \in Seq({file[1]}) /\ Last(mounts) = file[1] /\ file # << >>
      <4>1. mounts \in Seq({file[1]}) /\ mounts # << >> /\ file # << >>
        BY <1>2 DEF IInv, MountsOfFile
      <4>2. Front(mounts) \in Seq({file[1]}) /\ Last(mounts) \in {file[1]}
        BY <4>1, UnmountOne
      <4>. QED BY <1>2, <2>3, <4>1, <4>2
    <3>2. app \in {NoApp, Stock}
      <4>1. Resolved = file[1] BY <1>2, <3>1 DEF Resolved
      <4>2. app = NoApp \/ app # file[1].inode BY <2>3, <4>1 DEF Busy
      <4>. QED BY <4>2 DEF IInv, AppOnFile
    <3>3. MountsOfFile' BY <1>2, <3>1 DEF MountsOfFile
    <3>4. AppOnFile' BY <1>2, <3>2 DEF AppOnFile
    <3>. QED BY <2>1, <3>3, <3>4 DEF IInv
  <2>. QED BY <2>2, <2>3
<1>3. CASE Ends("failed") /\ UNCHANGED device BY <1>3, FailedStep
<1>. QED BY <1>1, <1>2, <1>3 DEF ApplyUnmounts, RevertUnmounts, UnmountAt, Goto, Continue

(* A command begins.                                                        *)
LEMMA BeginStep ==
  ASSUME IInv, BeginApply \/ BeginRevert \/ BeginStatus
  PROVE  IInv'
<1>1. UNCHANGED <<file, mounts, app, inodes>>
  BY DEF BeginApply, BeginRevert, BeginStatus, device
<1>2. run.n + 1 \in Nat BY DEF IInv, Types
<1>3. Types' /\ NothingMounted'
  <2>1. CASE BeginApply
    <3>1. PICK wish \in Wishes : run' = [Idle(run.n + 1) EXCEPT !.wish = wish]
      BY <2>1 DEF BeginApply
    <3>2. run'.n = run.n + 1 /\ run'.mounted = FALSE /\ {"n", "mounted"} \subseteq DOMAIN run'
      BY <3>1 DEF Idle
    <3>3. pc' = "apply: stop old" \/ (pc' = "apply: pull" /\ mounts = << >>)
      BY <2>1 DEF BeginApply
    <3>. QED BY <1>1, <1>2, <3>2, <3>3 DEF IInv, Types, NothingMounted
  <2>2. CASE BeginRevert
    <3>1. run'.n = run.n + 1 /\ run'.mounted = (mounts # << >>)
          /\ {"n", "mounted"} \subseteq DOMAIN run'
      BY <2>2 DEF BeginRevert, Idle
    <3>2. pc' = "revert: present" BY <2>2 DEF BeginRevert
    <3>. QED BY <1>1, <1>2, <3>1, <3>2 DEF IInv, Types, NothingMounted
  <2>3. CASE BeginStatus
    <3>1. run'.n = run.n + 1 /\ run'.mounted = FALSE /\ {"n", "mounted"} \subseteq DOMAIN run'
          /\ pc' = "status: present"
      BY <2>3 DEF BeginStatus, Idle
    <3>. QED BY <1>1, <1>2, <3>1 DEF IInv, Types, NothingMounted
  <2>. QED BY <2>1, <2>2, <2>3
<1>. QED BY <1>1, <1>3, QuietStep

(* What a command reads, and what it says at its end.                       *)
LEMMA LookStep ==
  ASSUME IInv,
         \/ Pull \/ LookAtFile \/ Look \/ ApplyReports \/ RevertLooks \/ RevertPs \/ RevertReports
         \/ StatusLooks \/ StatusReads \/ StatusReports \/ Die
  PROVE  IInv'
<1>1. UNCHANGED device
  BY DEF Pull, LookAtFile, Look, ApplyReports, RevertLooks, RevertPs, RevertReports,
         StatusLooks, StatusReads, StatusReports, Die, Continue
<1>2. CASE \E s : Ends(s)
  BY <1>1, <1>2, FailedStep
<1>3. CASE /\ run'.n = run.n /\ run'.mounted = run.mounted /\ DOMAIN run' = DOMAIN run
           /\ \/ pc' \in {"apply: look", "apply: stop", "status: inode", "status: maps"}
              \/ pc = "apply: pull" /\ pc' = "apply: push"
              \/ pc = "revert: present" /\ pc' = "revert: ps"
              \/ pc = "revert: ps" /\ pc' = "revert: stop"
  <2>1. Types' /\ NothingMounted'
    BY <1>1, <1>3 DEF IInv, Types, NothingMounted, device
  <2>. QED BY <1>1, <2>1, QuietStep DEF device
<1>4. CASE Pull \/ LookAtFile \/ Look
  <2>1. CASE \E field \in {"lib", "inode"} : \E v : run' = [run EXCEPT ![field] = v]
    BY <1>2, <1>3, <1>4, <2>1 DEF Pull, LookAtFile, Look, Goto, IInv, Types
  <2>2. CASE run' = run
    BY <1>2, <1>3, <1>4, <2>2 DEF Pull, LookAtFile, Look, Goto
  <2>. QED BY <1>2, <1>4, <2>1, <2>2 DEF Pull, LookAtFile, Look, Goto
<1>5. CASE RevertLooks \/ RevertPs \/ StatusLooks \/ StatusReads
  <2>1. {"n", "mounted"} \subseteq DOMAIN run BY DEF IInv, Types
  <2>2. CASE \E field \in {"present", "running"} : \E v : run' = [run EXCEPT ![field] = v]
    BY <1>2, <1>3, <1>5, <2>1, <2>2 DEF RevertLooks, RevertPs, StatusLooks, StatusReads
  <2>3. CASE StatusReads
    BY <1>3, <2>1, <2>3 DEF StatusReads
  <2>. QED BY <1>2, <1>5, <2>2, <2>3 DEF RevertLooks, RevertPs, StatusLooks
<1>6. CASE ApplyReports \/ RevertReports \/ StatusReports \/ Die
  BY <1>2, <1>6 DEF ApplyReports, RevertReports, StatusReports, Die
<1>. QED BY <1>4, <1>5, <1>6

(* A new file is pushed while nothing is mounted.                           *)
LEMMA PushStep ==
  ASSUME IInv, Push
  PROVE  IInv'
<1>1. mounts = << >> /\ mounts' = mounts /\ app' = app /\ inodes' = inodes + 1
  BY DEF Push, IInv, NothingMounted
<1>2. file' # << >> /\ file'[1].inode = inodes + 1
  <2>1. PICK lib : file' = <<[inode |-> inodes + 1, lib |-> lib]>> BY DEF Push
  <2>. QED BY <2>1
<1>3. MountsOfFile' BY <1>1, EmptySeq DEF MountsOfFile
<1>4. AppOnFile' BY <1>1 DEF IInv, AppOnFile
<1>5. run'.n = run.n /\ run'.mounted \in BOOLEAN /\ {"n", "mounted"} \subseteq DOMAIN run'
      /\ pc' \in {"apply: mount", "idle"}
  BY IdleRun DEF Push, Goto, Ends, IInv, Types
<1>6. Types'
  <2>1. inodes + 1 \in Nat \ {0} /\ run.n \in Nat BY DEF IInv, Types
  <2>2. file'[1].inode \in Nat \ {0} /\ inodes' \in Nat BY <1>1, <1>2, <2>1
  <2>. QED BY <1>5, <2>1, <2>2 DEF Types
<1>7. NothingMounted' BY <1>1, <1>5 DEF NothingMounted
<1>. QED BY <1>3, <1>4, <1>6, <1>7 DEF IInv

(* It is mounted, once or twice, or not at all.                             *)
LEMMA MountStep ==
  ASSUME IInv, Mount
  PROVE  IInv'
<1>1. CASE Ends("failed") /\ UNCHANGED device BY <1>1, FailedStep
<1>2. CASE /\ file # << >>
           /\ \E times \in 0..2 : mounts' = mounts \o [i \in 1..times |-> file[1]]
           /\ pc' = "apply: inode" /\ UNCHANGED <<flash, file, app, service, inodes, run>>
  <2>1. mounts = << >> BY DEF Mount, IInv, NothingMounted
  <2>2. PICK times \in 0..2 : mounts' = mounts \o [i \in 1..times |-> file[1]] BY <1>2
  <2>3. [i \in 1..times |-> file[1]] \in Seq({file[1]}) BY <2>2
  <2>4. mounts' \in Seq({file[1]})
    BY <2>2, <2>3, ConcatProperties DEF IInv, MountsOfFile
  <2>5. MountsOfFile' BY <1>2, <2>4 DEF MountsOfFile
  <2>6. AppOnFile' BY <1>2, <2>1 DEF IInv, AppOnFile
  <2>7. Types' /\ NothingMounted' BY <1>2 DEF IInv, Types, NothingMounted
  <2>. QED BY <2>5, <2>6, <2>7 DEF IInv
<1>. QED BY <1>1, <1>2 DEF Mount, Continue, Goto

(* revert removes the file while nothing is mounted.                        *)
LEMMA RemoveStep ==
  ASSUME IInv, RemoveFile
  PROVE  IInv'
<1>1. mounts = << >> /\ mounts' = mounts /\ app' = app /\ inodes' = inodes
      /\ file' \in {file, << >>}
  BY DEF RemoveFile, IInv, NothingMounted
<1>2. MountsOfFile' BY <1>1, EmptySeq DEF MountsOfFile
<1>3. AppOnFile' BY <1>1 DEF IInv, AppOnFile
<1>4. run'.n = run.n /\ run'.mounted \in BOOLEAN /\ {"n", "mounted"} \subseteq DOMAIN run'
      /\ pc' \in {"revert: start", "idle"}
  BY IdleRun DEF RemoveFile, Goto, Ends, IInv, Types
<1>5. Types' /\ NothingMounted' BY <1>1, <1>4 DEF IInv, Types, NothingMounted
<1>. QED BY <1>2, <1>3, <1>5 DEF IInv

(* The device by itself.                                                    *)
LEMMA DeviceStep ==
  ASSUME IInv, Reboot \/ Crash \/ Respawn
  PROVE  IInv'
<1>1. UNCHANGED <<inodes, pc, run>> BY DEF Reboot, Crash, Respawn
<1>2. CASE Reboot
  <2>1. file' = << >> /\ mounts' = << >> /\ app' = Stock BY <1>2 DEF Reboot
  <2>2. MountsOfFile' BY <2>1, EmptySeq DEF MountsOfFile
  <2>3. Types' /\ NothingMounted' /\ AppOnFile'
    BY <1>1, <2>1 DEF IInv, Types, NothingMounted, AppOnFile
  <2>. QED BY <2>2, <2>3 DEF IInv
<1>3. CASE Crash \/ Respawn
  <2>1. UNCHANGED <<file, mounts>> /\ app' \in {NoApp, Resolved.inode}
    BY <1>3 DEF Crash, Respawn
  <2>2. Types' /\ NothingMounted' BY <1>1, <2>1 DEF IInv, Types, NothingMounted
  <2>. QED BY <1>1, <2>1, <2>2, QuietStep
<1>. QED BY <1>2, <1>3

LEMMA NextInv == IInv /\ [Next]_vars => IInv'
<1>. SUFFICES ASSUME IInv, [Next]_vars PROVE IInv' OBVIOUS
<1>1. CASE UNCHANGED vars
  BY <1>1 DEF vars, device, IInv, Types, MountsOfFile, NothingMounted, AppOnFile
<1>2. CASE Tool
  BY <1>2, StopStep, UnmountStep, LookStep, PushStep, MountStep, StartStep, RemoveStep DEF Tool
<1>. QED BY <1>1, <1>2, BeginStep, LookStep, DeviceStep DEF Next

-----------------------------------------------------------------------------
(* What a command has made sure of by each of its calls.  apply patches the *)
(* library in flash, because nothing is mounted when it pulls, and the file *)
(* it starts the app on is the one it pushed, or is gone with a reboot.     *)
(* revert knows of the file it has to remove.  What status has read of the  *)
(* file is so until it is gone.                                             *)
Fields == {"wish", "present", "lib", "inode", "sure"}
AfterPush == {"apply: mount", "apply: inode", "apply: look", "apply: stop", "apply: start",
              "apply: back", "apply: check"}
AfterLook == {"apply: look", "apply: stop", "apply: start", "apply: back", "apply: check",
              "status: maps"}
Inodes == (Nat \ {0}) \cup {None}

Claims ==
    /\ Fields \subseteq DOMAIN run
    /\ pc = "apply: push" => Known(flash) /\ run.lib = PatchBytes(flash, run.wish)
    /\ pc \in AfterPush /\ file # << >>
       => Known(flash) /\ file[1].lib = PatchBytes(flash, run.wish)
    /\ pc \in AfterLook => run.inode \in Inodes
    /\ pc \in {"revert: ps", "revert: stop", "revert: unmount", "revert: remove", "status: inode"}
       => run.present \/ file = << >>
    /\ pc \in {"revert: start", "revert: back", "revert: check"} => file = << >> /\ mounts = << >>
    /\ pc = "status: maps" /\ run.sure /\ file # << >> => run.inode = file[1].inode

LEMMA NoneIsNone == None \in Int /\ None \notin Nat
  BY DEF None

\* An idle tool claims nothing.
LEMMA IdleClaims ==
  ASSUME NEW n, pc' = "idle", run' = Idle(n)
  PROVE  Claims'
  BY DEF Claims, Fields, Idle, AfterPush, AfterLook

LEMMA EndsClaims ==
  ASSUME NEW s, Ends(s)
  PROVE  Claims'
  BY IdleClaims DEF Ends

LEMMA InitClaims == Init => Claims
  BY DEF Init, Claims, Fields, Idle, AfterPush, AfterLook

\* The app stops, starts or crashes; what the tool knows is the same.
LEMMA AppClaims ==
  ASSUME Claims, UNCHANGED <<flash, file, mounts, run>>,
         \/ pc' = pc
         \/ pc = "apply: stop old" /\ pc' = "apply: unmount"
         \/ pc = "apply: stop" /\ pc' = "apply: start"
         \/ pc = "apply: start" /\ pc' = "apply: back"
         \/ pc = "apply: back" /\ pc' = "apply: check"
         \/ pc = "revert: stop" /\ pc' \in {"revert: unmount", "revert: remove"}
         \/ pc = "revert: start" /\ pc' = "revert: back"
         \/ pc = "revert: back" /\ pc' = "revert: check"
         \/ pc = "apply: unmount" /\ pc' = "apply: pull"
         \/ pc = "revert: unmount" /\ pc' = "revert: remove"
         \/ pc = "apply: look" /\ pc' = "apply: stop"
  PROVE  Claims'
  BY DEF Claims, AfterPush, AfterLook

\* A step of a command that goes on makes sure of the next thing.
LEMMA ToolClaims ==
  ASSUME IInv, Claims, Tool
  PROVE  Claims'
<1>1. CASE \E s : Ends(s) BY <1>1, EndsClaims
<1>2. CASE ApplyStopsOld \/ ApplyStops \/ RevertStops
  BY <1>2, AppClaims DEF ApplyStopsOld, ApplyStops, RevertStops, StopAt, Goto, device
<1>3. CASE ApplyStarts \/ RevertStarts
  BY <1>3, AppClaims DEF ApplyStarts, RevertStarts, StartAt, Goto
<1>4. CASE ApplyUnmounts \/ RevertUnmounts
  <2>1. CASE /\ run' = [run EXCEPT !.tries = @ + 1] /\ pc' = pc
             /\ UNCHANGED <<flash, file>> /\ pc \in {"apply: unmount", "revert: unmount"}
    <3>1. Fields \subseteq DOMAIN run' /\ run'.present = run.present
      BY <2>1 DEF Claims, Fields
    <3>. QED BY <2>1, <3>1 DEF Claims, AfterPush, AfterLook
  <2>2. CASE UNCHANGED <<device, run>> /\ ~Ends("failed")
    BY <1>4, <2>2, AppClaims DEF ApplyUnmounts, RevertUnmounts, UnmountAt, Goto, device
  <2>. QED BY <1>1, <1>4, <2>1, <2>2
    DEF ApplyUnmounts, RevertUnmounts, UnmountAt, Goto, Continue
<1>5. CASE Pull
  <2>1. CASE /\ Known(Resolved.lib) /\ pc' = "apply: push"
             /\ run' = [run EXCEPT !.lib = PatchBytes(Resolved.lib, run.wish)]
    <3>1. Resolved.lib = flash /\ flash' = flash
      BY <1>5 DEF Pull, Continue, device, IInv, NothingMounted, Resolved
    <3>2. run'.lib = PatchBytes(flash, run.wish) /\ run'.wish = run.wish /\ Fields \subseteq DOMAIN run'
      BY <2>1, <3>1 DEF Claims, Fields
    <3>. QED BY <2>1, <3>1, <3>2 DEF Claims, AfterPush, AfterLook
  <2>. QED BY <1>1, <1>5, <2>1 DEF Pull
<1>6. CASE Push
  <2>1. CASE /\ pc' = "apply: mount" /\ run' = run /\ flash' = flash /\ pc = "apply: push"
             /\ file' = <<[inode |-> inodes + 1, lib |-> run.lib]>>
    <3>1. file'[1].lib = run.lib BY <2>1
    <3>. QED BY <2>1, <3>1 DEF Claims, AfterPush, AfterLook
  <2>. QED BY <1>1, <1>6, <2>1 DEF Push, Goto
<1>7. CASE Mount
  <2>1. CASE /\ pc = "apply: mount" /\ pc' = "apply: inode"
             /\ UNCHANGED <<flash, file, run>>
    BY <2>1 DEF Claims, AfterPush, AfterLook
  <2>. QED BY <1>1, <1>7, <2>1 DEF Mount, Goto
<1>8. CASE LookAtFile
  <2>1. PICK inode \in {FileInode, None} : run' = [run EXCEPT !.inode = inode]
    BY <1>8 DEF LookAtFile
  <2>2. inode \in Inodes BY <2>1 DEF FileInode, Inodes, IInv, Types
  <2>3. /\ run'.inode = inode /\ run'.wish = run.wish /\ Fields \subseteq DOMAIN run'
        /\ pc = "apply: inode" /\ pc' = "apply: look" /\ UNCHANGED <<flash, file>>
    BY <1>8, <2>1 DEF LookAtFile, Claims, Fields, device
  <2>. QED BY <2>2, <2>3 DEF Claims, AfterPush, AfterLook
<1>9. CASE Look
  BY <1>1, <1>9, AppClaims DEF Look, Goto, Continue, device
<1>10. CASE ApplyBack \/ RevertBack
  <2>1. CASE UNCHANGED <<flash, file, mounts, run>> /\ ~Ends("failed")
    BY <1>10, <2>1, AppClaims DEF ApplyBack, RevertBack, BackAt, Goto
  <2>. QED BY <1>1, <1>10, <2>1 DEF ApplyBack, RevertBack, BackAt, Goto, Continue, device
<1>11. CASE RevertLooks \/ StatusLooks
  <2>1. PICK present \in {file # << >>, TRUE} : run' = [run EXCEPT !.present = present]
    BY <1>11 DEF RevertLooks, StatusLooks
  <2>2. /\ run'.present \/ file = << >>
        /\ Fields \subseteq DOMAIN run' /\ pc' \in {"revert: ps", "status: inode"} /\ file' = file
    BY <1>11, <2>1 DEF RevertLooks, StatusLooks, Claims, Fields, device
  <2>. QED BY <2>2 DEF Claims, AfterPush, AfterLook
<1>12. CASE RevertPs
  <2>1. CASE /\ pc = "revert: ps" /\ pc' = "revert: stop" /\ file' = file
             /\ run' = [run EXCEPT !.running = app # NoApp]
    <3>1. run'.present = run.present /\ Fields \subseteq DOMAIN run' BY <2>1 DEF Claims, Fields
    <3>. QED BY <2>1, <3>1 DEF Claims, AfterPush, AfterLook
  <2>. QED BY <1>1, <1>12, <2>1 DEF RevertPs, Continue, device
<1>13. CASE StatusReads
  <2>1. PICK inode \in IF run.present THEN {FileInode, None} ELSE {None} :
          run' = [run EXCEPT !.inode = inode, !.sure = inode # None \/ file = << >>]
    BY <1>13 DEF StatusReads
  <2>2. /\ inode \in Inodes
        /\ (inode # None \/ file = << >>) /\ file # << >> => inode = file[1].inode
    BY <2>1 DEF FileInode, Inodes, IInv, Types
  <2>3. /\ run'.inode = inode /\ run'.sure = (inode # None \/ file = << >>)
        /\ Fields \subseteq DOMAIN run' /\ pc' = "status: maps" /\ file' = file
    BY <1>13, <2>1 DEF StatusReads, Claims, Fields, device
  <2>. QED BY <2>2, <2>3 DEF Claims, AfterPush, AfterLook
<1>14. CASE RemoveFile
  <2>1. CASE /\ pc = "revert: remove" /\ pc' = "revert: start" /\ run' = run /\ mounts' = mounts
             /\ file' = IF run.present THEN << >> ELSE file
    <3>1. mounts = << >> BY <2>1 DEF IInv, NothingMounted
    <3>. QED BY <2>1, <3>1 DEF Claims, AfterPush, AfterLook
  <2>. QED BY <1>1, <1>14, <2>1 DEF RemoveFile, Goto
<1>15. CASE ApplyReports \/ RevertReports \/ StatusReports
  BY <1>1, <1>15 DEF ApplyReports, RevertReports, StatusReports
<1>. QED BY <1>2, <1>3, <1>4, <1>5, <1>6, <1>7, <1>8, <1>9, <1>10, <1>11, <1>12, <1>13, <1>14,
            <1>15 DEF Tool

LEMMA StepClaims == IInv /\ Claims /\ [Next]_vars => Claims'
<1>. SUFFICES ASSUME IInv, Claims, [Next]_vars PROVE Claims' OBVIOUS
<1>1. CASE BeginApply
  <2>1. PICK wish \in Wishes : run' = [Idle(run.n + 1) EXCEPT !.wish = wish]
    BY <1>1 DEF BeginApply
  <2>2. Fields \subseteq DOMAIN run' BY <2>1 DEF Idle, Fields
  <2>3. pc' \in {"apply: stop old", "apply: pull"} BY <1>1 DEF BeginApply
  <2>. QED BY <2>2, <2>3 DEF Claims, AfterPush, AfterLook
<1>2. CASE BeginRevert \/ BeginStatus
  <2>1. Fields \subseteq DOMAIN run' /\ pc' \in {"revert: present", "status: present"}
    BY <1>2 DEF BeginRevert, BeginStatus, Idle, Fields
  <2>. QED BY <2>1 DEF Claims, AfterPush, AfterLook
<1>3. CASE Die BY <1>3, EndsClaims DEF Die
<1>4. CASE Reboot BY <1>4 DEF Reboot, Claims
<1>5. CASE Crash \/ Respawn BY <1>5, AppClaims DEF Crash, Respawn
<1>6. CASE UNCHANGED vars BY <1>6, AppClaims DEF vars, device
<1>. QED BY <1>1, <1>2, <1>3, <1>4, <1>5, <1>6, ToolClaims DEF Next

-----------------------------------------------------------------------------
LEMMA NotMore == \A n \in Nat : ~(n > n)
  OBVIOUS

\* Each of these is said by one step, and what the app has mapped is as read.
LEMMA SaidByCommand ==
  ASSUME IInv, Next
  PROVE  /\ Says("patched") => ApplyReports /\ app # None /\ app = run.inode
         /\ Says("stock") => RevertReports /\ app = Resolved.inode
         /\ Says("status: patched") => StatusReports /\ app # None /\ app = run.inode
         /\ Says("status: stock") => StatusReports /\ app \notin {NoApp, run.inode} /\ run.sure
<1> DEFINE Statements == {"patched", "stock", "status: patched", "status: stock"}
<1>1. ASSUME NEW s \in Statements, Says(s)
      PROVE  Ends(s) /\ (ApplyReports \/ RevertReports \/ StatusReports)
  <2>1. said' = s /\ (run'.n > run.n \/ (pc' = "idle" /\ pc # "idle")) BY <1>1 DEF Says
  <2>2. run.n \in Nat BY DEF IInv, Types
  <2>3. ~(run'.n = run.n /\ (pc' # "idle" \/ pc' = pc))
    <3>1. ASSUME run'.n = run.n PROVE ~(run'.n > run.n) BY <2>2, <3>1, NotMore, Zenon
    <3>. QED BY <2>1, <3>1
  <2>4. CASE ApplyReports \/ RevertReports \/ StatusReports
    <3>1. PICK other : Ends(other) BY <2>4 DEF ApplyReports, RevertReports, StatusReports
    <3>2. other = s BY <2>1, <3>1 DEF Ends
    <3>. QED BY <2>4, <3>1, <3>2
  <2>5. CASE Tool /\ ~ApplyReports /\ ~RevertReports /\ ~StatusReports
    <3>1. ~(Ends("failed") \/ Ends("removed") \/ Ends("nothing to revert"))
      BY <2>1 DEF Ends
    <3>2. CASE run'.n = run.n /\ pc' # "idle" BY <2>3, <3>2
    <3>3. CASE ApplyStopsOld \/ ApplyUnmounts \/ ApplyStops \/ ApplyStarts \/ ApplyBack
      BY <3>1, <3>2, <3>3 DEF ApplyStopsOld, ApplyUnmounts, ApplyStops, ApplyStarts, ApplyBack,
         StopAt, StartAt, BackAt, UnmountAt, Goto, IInv, Types
    <3>4. CASE Pull \/ Push \/ Mount \/ LookAtFile \/ Look
      BY <3>1, <3>2, <3>4 DEF Pull, Push, Mount, LookAtFile, Look, Goto, IInv, Types
    <3>5. CASE RevertLooks \/ RevertPs \/ RemoveFile \/ StatusLooks \/ StatusReads
      BY <3>1, <3>2, <3>5 DEF RevertLooks, RevertPs, RemoveFile, StatusLooks, StatusReads, Goto,
         IInv, Types
    <3>6. CASE RevertStops \/ RevertUnmounts \/ RevertStarts \/ RevertBack
      BY <3>1, <3>2, <3>6 DEF RevertStops, RevertUnmounts, RevertStarts, RevertBack,
         StopAt, StartAt, BackAt, UnmountAt, Goto, IInv, Types
    <3>. QED BY <2>5, <3>3, <3>4, <3>5, <3>6 DEF Tool
  <2>6. CASE BeginApply \/ BeginRevert \/ BeginStatus \/ Die
    BY <2>1, <2>6 DEF BeginApply, BeginRevert, BeginStatus, Die, Ends
  <2>7. CASE Reboot \/ Crash \/ Respawn
    <3>1. run' = run /\ pc' = pc BY <2>7 DEF Reboot, Crash, Respawn
    <3>. QED BY <2>3, <3>1
  <2>. QED BY <2>4, <2>5, <2>6, <2>7 DEF Next
<1>2. \A mapped \in Mapped : mapped # None => mapped = app /\ app # NoApp
  BY DEF Mapped
<1>3. \A s \in Statements : Says(s) => said' = s
  BY DEF Says
<1>4. Says("patched") => ApplyReports /\ app # None /\ app = run.inode
  BY <1>1, <1>2, <1>3 DEF ApplyReports, RevertReports, StatusReports, Ends, MapsIt
<1>5. Says("stock") => RevertReports /\ app = Resolved.inode
  BY <1>1, <1>2, <1>3 DEF ApplyReports, RevertReports, StatusReports, Ends, MapsIt
<1>6. Says("status: patched") => StatusReports /\ app # None /\ app = run.inode
  BY <1>1, <1>2, <1>3 DEF ApplyReports, RevertReports, StatusReports, Ends, MapsIt
<1>7. Says("status: stock") => StatusReports /\ app \notin {NoApp, run.inode} /\ run.sure
  BY <1>1, <1>2, <1>3 DEF ApplyReports, RevertReports, StatusReports, Ends, MapsIt
<1>. QED BY <1>4, <1>5, <1>6, <1>7

\* An inode that was read off the file is not the stock library's.
LEMMA ReadOff ==
  ASSUME Claims, pc \in AfterLook, app = run.inode, app # None
  PROVE  app # NoApp /\ app # Stock
<1>1. app \in Nat \ {0} BY DEF Claims, Inodes
<1>2. NoApp \notin Nat \ {0} /\ Stock \notin Nat \ {0} BY DEF NoApp, Stock
<1>. QED BY <1>1, <1>2

(* What apply and revert say when they succeed is so: the app runs the      *)
(* vendor's library with what was asked for patched in, or the stock one    *)
(* with no override left (cmd_apply, cmd_revert).                           *)
THEOREM SuccessIsSo == Spec => ClaimsTrue
<1>1. IInv /\ Claims /\ [Next]_vars =>
        [/\ Says("patched") => /\ Known(flash)
                               /\ file # << >> /\ app = file[1].inode
                               /\ file[1].lib = PatchBytes(flash, run.wish)
         /\ Says("stock")   => file = << >> /\ mounts = << >> /\ app = Stock]_vars
  <2>. SUFFICES ASSUME IInv, Claims, Next
               PROVE  /\ Says("patched") => /\ Known(flash)
                                            /\ file # << >> /\ app = file[1].inode
                                            /\ file[1].lib = PatchBytes(flash, run.wish)
                      /\ Says("stock") => file = << >> /\ mounts = << >> /\ app = Stock
    OBVIOUS
  <2>1. ASSUME Says("patched")
        PROVE  /\ Known(flash) /\ file # << >> /\ app = file[1].inode
               /\ file[1].lib = PatchBytes(flash, run.wish)
    <3>1. pc = "apply: check" /\ app = run.inode /\ app # None
      BY <2>1, SaidByCommand DEF ApplyReports
    <3>2. app # NoApp /\ app # Stock BY <3>1, ReadOff DEF AfterLook
    <3>3. file # << >> /\ app = file[1].inode BY <3>2 DEF IInv, AppOnFile, MountsOfFile
    <3>. QED BY <3>1, <3>3 DEF Claims, AfterPush
  <2>2. ASSUME Says("stock") PROVE file = << >> /\ mounts = << >> /\ app = Stock
    <3>1. pc = "revert: check" /\ app = Resolved.inode BY <2>2, SaidByCommand DEF RevertReports
    <3>. QED BY <3>1 DEF Claims, Resolved
  <2>. QED BY <2>1, <2>2
<1>. QED BY <1>1, InitInv, NextInv, InitClaims, StepClaims, PTL DEF Spec, ClaimsTrue

(* When status has read the file's inode and the one the app has mapped,    *)
(* what it prints of the two is so, though the file, the app and the device *)
(* may have changed between its calls (cmd_status).                         *)
THEOREM StatusRight == Spec => StatusTrue
<1>1. IInv /\ Claims /\ [Next]_vars =>
        [/\ Says("status: stock")   => app = Stock
         /\ Says("status: patched") => app # Stock]_vars
  <2>. SUFFICES ASSUME IInv, Claims, Next
               PROVE  /\ Says("status: stock")   => app = Stock
                      /\ Says("status: patched") => app # Stock
    OBVIOUS
  <2>1. ASSUME Says("status: stock") PROVE app = Stock
    <3>1. pc = "status: maps" /\ app \notin {NoApp, run.inode} /\ run.sure
      BY <2>1, SaidByCommand DEF StatusReports
    <3>2. file # << >> => app # file[1].inode BY <3>1 DEF Claims
    <3>. QED BY <3>1, <3>2 DEF IInv, MountsOfFile, AppOnFile
  <2>2. ASSUME Says("status: patched") PROVE app # Stock
    <3>1. pc = "status: maps" /\ app = run.inode /\ app # None
      BY <2>2, SaidByCommand DEF StatusReports
    <3>. QED BY <3>1, ReadOff DEF AfterLook
  <2>. QED BY <2>1, <2>2
<1>. QED BY <1>1, InitInv, NextInv, InitClaims, StepClaims, PTL DEF Spec, StatusTrue
=============================================================================
