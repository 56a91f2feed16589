------------------------------ MODULE NtpPatch ------------------------------
(***************************************************************************)
(* tc002-ntp-patch.py: apply and revert, one command after another over    *)
(* adb, against what the device does meanwhile.  apply pulls the app's     *)
(* library, patches it, pushes the copy to /tmp, bind-mounts it over the   *)
(* library and restarts the app; revert takes all that back.  Either may   *)
(* end at any adb call: the call fails, the operator interrupts, the wifi  *)
(* is away for longer than the retries last.  A call that only seemed to   *)
(* fail is made again, so it may happen twice.  The device may reboot, and *)
(* its init starts an app that crashed.                                    *)
(*                                                                         *)
(* A library is the build it is of and the three constants the tool knows  *)
(* how to patch; a mapped one is known by its inode, 0 for the one in flash.*)
(***************************************************************************)
EXTENDS Integers, Sequences, SequencesExt

CONSTANTS Builds,      \* BUILDS: the app builds whose offsets are known
          OtherBuild,  \* one they are not known of
          Slots,       \* server slots of a library, 7
          Wishes,      \* what apply may be asked: a period, servers, or both
          MaxCommands, \* bound: commands the operator gives
          MaxCrashes,  \* bound: crashes of the app
          MaxReboots,  \* bound: reboots
          UmountTries  \* unmount_override's attempts, 5

Stock == 0    \* inode of /res/lib/libzkgui.so itself
NoApp == -1   \* zkgui is not running
None  == -2   \* an inode that could not be read, or that nothing has

\* a library as the vendor built it, and a file whose push was cut off
VendorLib(b) == [build |-> b, period |-> "2 h", delay |-> "60 min",
                 servers |-> [i \in 1..Slots |-> "vendor"]]
CutOff == [VendorLib("none") EXCEPT !.servers = << >>]

(* known_build: by size and sha256, so only the vendor's very bytes.        *)
Known(lib) == \E b \in Builds : lib = VendorLib(b)

(* patch_bytes, of a library whose bytes are the expected ones: a period    *)
(* brings the short first delay, and servers fill all the slots in turn.    *)
PatchBytes(lib, wish) ==
    [lib EXCEPT !.period = IF wish.period = << >> THEN @ ELSE wish.period[1],
                !.delay = IF wish.period = << >> THEN @ ELSE "65 s",
                !.servers = IF wish.servers = << >> THEN @
                            ELSE [i \in 1..Slots |->
                                  wish.servers[((i - 1) % Len(wish.servers)) + 1]]]

VARIABLES
    \* the device
    flash,    \* the library in flash
    file,     \* OVERRIDE_LIB: << >>, or <<[inode, lib]>>
    mounts,   \* the files bind-mounted over DEVICE_LIB, the last on top
    app,      \* inode of the library zkgui has mapped
    service,  \* init's view of zkswe
    inodes,   \* inodes given out by tmpfs so far
    same,     \* zkgui is the process of the number the tool has read
    \* the tool
    pc,       \* the adb call it is at
    run,      \* number of the command, and its locals
    said,     \* history: what the last command ended with
    crashes, reboots

device == <<flash, file, mounts, app, service, inodes, same>>
faults == <<crashes, reboots>>
vars   == <<device, pc, run, said, faults>>

Nothing == [period |-> << >>, servers |-> << >>]
Idle(n) == [n |-> n, wish |-> Nothing, mounted |-> FALSE, present |-> FALSE, running |-> FALSE,
            tries |-> 0, lib |-> << >>, inode |-> None, sure |-> TRUE]

Init == /\ flash \in {VendorLib(b) : b \in Builds \cup {OtherBuild}}
        /\ file = << >> /\ mounts = << >> /\ app = Stock /\ service = "started" /\ inodes = 0
        /\ same = FALSE
        /\ pc = "idle" /\ run = Idle(0) /\ said = "nothing"
        /\ crashes = 0 /\ reboots = 0

\* what DEVICE_LIB resolves to
Resolved == IF mounts = << >> THEN [inode |-> Stock, lib |-> flash] ELSE Last(mounts)

Goto(place)     == pc' = place /\ UNCHANGED <<run, said, faults>>
Ends(statement) == pc' = "idle" /\ said' = statement /\ run' = Idle(run.n) /\ UNCHANGED faults
Continue        == UNCHANGED device

-----------------------------------------------------------------------------
(* die, sys.exit, an interrupt: at any call, whatever has been done so far. *)
Die == pc # "idle" /\ Ends("failed") /\ Continue

(* stop_app: nothing to do without a process; else init is asked to stop    *)
(* the service, and the tool waits for the process to be gone.              *)
StopAt(here, next) ==
    /\ pc = here
    /\ IF app = NoApp THEN UNCHANGED device
       ELSE /\ app' = NoApp /\ service' = "stopped" /\ same' = FALSE
            /\ UNCHANGED <<flash, file, mounts, inodes>>
    /\ Goto(next)

(* start_app: what the loader maps is what the path resolves to.  Then the  *)
(* tool waits for the process and takes its number.                         *)
StartAt(here, next) ==
    /\ pc = here
    /\ service' = "started"
    /\ app' = IF app = NoApp THEN Resolved.inode ELSE app
    /\ UNCHANGED <<flash, file, mounts, inodes, same>>
    /\ Goto(next)

BackAt(here, next) ==
    /\ pc = here
    /\ IF app = NoApp THEN Ends("failed") /\ Continue
       ELSE same' = TRUE /\ Goto(next) /\ UNCHANGED <<flash, file, mounts, app, service, inodes>>

(* mapped_inode, by the number read before: nothing, when the call fails    *)
(* (check=False), when that process is gone or has not come so far as to    *)
(* map its libraries, and when init has started another in its place.       *)
Mapped == {None} \cup (IF same /\ app # NoApp THEN {app} ELSE {})

(* inode and override_present, whose calls may fail as well: a file that    *)
(* could not be looked at has no inode, but is there.                       *)
FileInode == IF file = << >> THEN None ELSE file[1].inode

(* unmount_override: a mount is busy while the app has the file mapped.     *)
Busy == app # NoApp /\ app = Resolved.inode

\* mutant: goes on when the attempts are used up
UnmountedAnyway(here, next) ==
    /\ pc = here
    /\ IF mounts = << >> \/ run.tries >= UmountTries
       THEN pc' = next /\ UNCHANGED <<device, run>>
       ELSE /\ mounts' = IF Busy THEN mounts ELSE Front(mounts)
            /\ run' = [run EXCEPT !.tries = @ + 1]
            /\ UNCHANGED <<flash, file, app, service, inodes, same, pc>>
    /\ UNCHANGED <<said, faults>>

\* mutant: tries until it is unmounted
UnmountForever(here, next) ==
    /\ pc = here
    /\ IF mounts = << >> THEN pc' = next /\ UNCHANGED device
       ELSE /\ mounts' = IF Busy THEN mounts ELSE Front(mounts)
            /\ UNCHANGED <<flash, file, app, service, inodes, same, pc>>
    /\ UNCHANGED <<run, said, faults>>

UnmountAt(here, next) ==
    /\ pc = here
    /\ \/ mounts = << >> /\ Goto(next) /\ Continue
       \/ /\ mounts # << >> /\ run.tries < UmountTries
          /\ mounts' = IF Busy THEN mounts ELSE Front(mounts)
          /\ run' = [run EXCEPT !.tries = @ + 1]
          /\ UNCHANGED <<flash, file, app, service, inodes, same, pc, said, faults>>
       \/ mounts # << >> /\ run.tries >= UmountTries /\ Ends("failed") /\ Continue

-----------------------------------------------------------------------------
(* cmd_apply *)
BeginApply ==
    /\ pc = "idle" /\ run.n < MaxCommands
    /\ \E wish \in Wishes : run' = [Idle(run.n + 1) EXCEPT !.wish = wish]
    /\ pc' = IF mounts # << >> THEN "apply: stop old" ELSE "apply: pull"
    /\ said' = "nothing"
    /\ UNCHANGED <<device, faults>>

ApplyStopsOld == StopAt("apply: stop old", "apply: unmount")
ApplyUnmounts == UnmountAt("apply: unmount", "apply: pull")

(* What is pulled is what the path resolves to; check_known refuses what is *)
(* not a known build.                                                       *)
Pull == /\ pc = "apply: pull"
        /\ IF Known(Resolved.lib)
           THEN /\ pc' = "apply: push"
                /\ run' = [run EXCEPT !.lib = PatchBytes(Resolved.lib, run.wish)]
                /\ UNCHANGED <<said, faults>>
           ELSE Ends("failed")
        /\ Continue

(* adb push makes a new file; it may be cut off, or be made again.          *)
Push == /\ pc = "apply: push"
        /\ inodes' = inodes + 1
        /\ \E whole \in BOOLEAN :
             /\ file' = <<[inode |-> inodes + 1, lib |-> IF whole THEN run.lib ELSE CutOff]>>
             /\ IF whole THEN Goto("apply: mount") ELSE Ends("failed")
        /\ UNCHANGED <<flash, mounts, app, service, same>>

Mount == /\ pc = "apply: mount"
         /\ \/ file = << >> /\ Ends("failed") /\ Continue
            \/ /\ file # << >>
               /\ \E times \in 0..2 : mounts' = mounts \o [i \in 1..times |-> file[1]]
               /\ Goto("apply: inode")
               /\ UNCHANGED <<flash, file, app, service, inodes, same>>

(* The path has to resolve to the pushed file now; two calls that failed    *)
(* agree as well.                                                           *)
LookAtFile == /\ pc = "apply: inode"
              /\ \E inode \in {FileInode, None} : run' = [run EXCEPT !.inode = inode]
              /\ pc' = "apply: look"
              /\ UNCHANGED <<device, said, faults>>

Look == /\ pc = "apply: look"
        /\ \E inode \in {Resolved.inode, None} :
             IF inode = run.inode THEN Goto("apply: stop") ELSE Ends("failed")
        /\ Continue

ApplyStops  == StopAt("apply: stop", "apply: start")
ApplyStarts == StartAt("apply: start", "apply: back")
ApplyBack   == BackAt("apply: back", "apply: check")

\* mutant: that the app came back is enough
AppBack(mapped) == mapped # None

MapsIt(mapped) == mapped # None /\ mapped = run.inode

(* The app came back with the override, by its inode, or the command fails. *)
ApplyReports ==
    /\ pc = "apply: check"
    /\ \E mapped \in Mapped : Ends(IF MapsIt(mapped) THEN "patched" ELSE "failed")
    /\ Continue

-----------------------------------------------------------------------------
(* cmd_revert.  What it looks at first decides what it will do; the inodes  *)
(* it looks at decide nothing then.                                         *)
BeginRevert ==
    /\ pc = "idle" /\ run.n < MaxCommands
    /\ run' = [Idle(run.n + 1) EXCEPT !.mounted = mounts # << >>]
    /\ pc' = "revert: present" /\ said' = "nothing"
    /\ UNCHANGED <<device, faults>>

RevertLooks ==
    /\ pc = "revert: present"
    /\ \E present \in {file # << >>, TRUE} : run' = [run EXCEPT !.present = present]
    /\ pc' = "revert: ps"
    /\ UNCHANGED <<device, said, faults>>

RevertPs ==
    /\ pc = "revert: ps"
    /\ IF run.mounted \/ run.present
       THEN /\ pc' = "revert: stop" /\ run' = [run EXCEPT !.running = app # NoApp]
            /\ UNCHANGED <<said, faults>>
       ELSE Ends("nothing to revert")
    /\ Continue

RevertStops    == StopAt("revert: stop",
                         IF run.mounted THEN "revert: unmount" ELSE "revert: remove")
RevertUnmounts == UnmountAt("revert: unmount", "revert: remove")

RemoveFile ==
    /\ pc = "revert: remove"
    /\ file' = IF run.present THEN << >> ELSE file
    /\ IF run.running THEN Goto("revert: start") ELSE Ends("removed")
    /\ UNCHANGED <<flash, mounts, app, service, inodes, same>>

RevertStarts == StartAt("revert: start", "revert: back")
RevertBack   == BackAt("revert: back", "revert: check")

(* Nothing is mounted over the path by now, so its inode is the same        *)
(* whenever it is read.                                                     *)
RevertReports ==
    /\ pc = "revert: check"
    /\ \E mapped \in Mapped, inode \in {Resolved.inode, None} :
         Ends(IF mapped # None /\ mapped = inode THEN "stock" ELSE "unexpected")
    /\ Continue

-----------------------------------------------------------------------------
(* cmd_status: one adb call after another.  It goes on without what the     *)
(* looks that may fail did not bring, and "sure" remembers that.            *)
BeginStatus ==
    /\ pc = "idle" /\ run.n < MaxCommands
    /\ run' = [Idle(run.n + 1) EXCEPT !.running = app # NoApp]
    /\ same' = (app # NoApp)
    /\ pc' = "status: present" /\ said' = "nothing"
    /\ UNCHANGED <<flash, file, mounts, app, service, inodes, faults>>

StatusLooks ==
    /\ pc = "status: present"
    /\ \E present \in {file # << >>, TRUE} : run' = [run EXCEPT !.present = present]
    /\ pc' = "status: inode"
    /\ UNCHANGED <<device, said, faults>>

StatusReads ==
    /\ pc = "status: inode"
    /\ \E inode \in IF run.present THEN {FileInode, None} ELSE {None} :
         run' = [run EXCEPT !.inode = inode, !.sure = inode # None \/ file = << >>]
    /\ pc' = "status: maps"
    /\ UNCHANGED <<device, said, faults>>

(* It prints the same for a library that is not the file, for one it could  *)
(* not read, and when it could not read what the file is; the history tells *)
(* the first of these from the others.                                      *)
StatusReports ==
    /\ pc = "status: maps"
    /\ \E mapped \in Mapped :
         Ends(IF ~run.running       THEN "status: not running"
              ELSE IF MapsIt(mapped) THEN "status: patched"
              ELSE IF mapped # None /\ run.sure THEN "status: stock"
              ELSE "status: stock by default")
    /\ Continue

-----------------------------------------------------------------------------
(* The device.  /tmp is tmpfs and the mounts are of this boot; the app may  *)
(* get the number it had before.                                            *)
Reboot == /\ reboots < MaxReboots
          /\ reboots' = reboots + 1
          /\ file' = << >> /\ mounts' = << >> /\ app' = Stock /\ service' = "started"
          /\ same' \in BOOLEAN
          /\ UNCHANGED <<flash, inodes, pc, run, said, crashes>>

Crash == /\ app # NoApp /\ crashes < MaxCrashes
         /\ crashes' = crashes + 1
         /\ app' = NoApp /\ same' = FALSE
         /\ UNCHANGED <<flash, file, mounts, service, inodes, pc, run, said, reboots>>

Respawn == /\ app = NoApp /\ service = "started"
           /\ app' = Resolved.inode
           /\ UNCHANGED <<flash, file, mounts, service, inodes, same, pc, run, said, faults>>

(* A step of the tool that is not its end for want of adb.                  *)
Tool == \/ ApplyStopsOld \/ ApplyUnmounts \/ Pull \/ Push \/ Mount \/ LookAtFile \/ Look
        \/ ApplyStops \/ ApplyStarts \/ ApplyBack \/ ApplyReports
        \/ RevertLooks \/ RevertPs \/ RevertStops \/ RevertUnmounts \/ RemoveFile
        \/ RevertStarts \/ RevertBack \/ RevertReports
        \/ StatusLooks \/ StatusReads \/ StatusReports

Next == BeginApply \/ BeginRevert \/ BeginStatus \/ Tool \/ Die \/ Reboot \/ Crash \/ Respawn

(* A command goes on as long as adb returns.                                *)
Spec == Init /\ [][Next]_vars /\ WF_vars(Tool)

-----------------------------------------------------------------------------
(* What a command says when it succeeds is so at that moment, after         *)
(* whatever failed before.  apply: the app runs the vendor's library with   *)
(* what was asked for patched in, and of a known build.  revert: it runs    *)
(* the stock library, and no override is left.                              *)
Says(s) == said' = s /\ (run'.n > run.n \/ (pc # "idle" /\ pc' = "idle"))

ClaimsTrue ==
    [][/\ Says("patched") => /\ Known(flash)
                             /\ file # << >> /\ app = file[1].inode
                             /\ file[1].lib = PatchBytes(flash, run.wish)
       /\ Says("stock")   => file = << >> /\ mounts = << >> /\ app = Stock]_vars

(* status tells the patched library by the inode of the override file, and  *)
(* takes every other for stock.  When it has read both, that is so, however *)
(* long ago it read the file's: an app never runs on with an override that  *)
(* is no longer the file.                                                   *)
StatusTrue ==
    [][/\ Says("status: stock")   => app = Stock
       /\ Says("status: patched") => app # Stock]_vars

(* "`status` says which library the running app has mapped" (DEVICE.md).    *)
StatusKnows ==
    [][Says("status: stock by default") => app \in {Stock, NoApp}]_vars

(* A command ends, also when the app is started again behind its back and   *)
(* keeps the mount busy.                                                    *)
CommandEnds == pc # "idle" ~> pc = "idle"

(* "a reboot restores stock behaviour, and so does `revert`".               *)
RevertRestores == [][Says("removed") => app' = Stock]_vars
=============================================================================
