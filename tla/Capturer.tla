------------------------------ MODULE Capturer ------------------------------
(***************************************************************************)
(* The photos: capturer_get_frame() of capturer.c, upload_capture() of     *)
(* owncloud.c and the part of on_alarm_event() that calls them, on the     *)
(* directory of the captures.                                              *)
(*                                                                         *)
(* A photo is downloaded to <name>.tmp and renamed to <name>; the name is  *)
(* the local time to the second.  Meanwhile the script capture_erase.cgi   *)
(* of the web interface may remove the files it finds, the clock may be    *)
(* set (or summer time may end), and the daemon may be killed at any point *)
(* and started again.  Every call may fail.                                *)
(***************************************************************************)
EXTENDS Integers

CONSTANTS
    MaxSecond,      \* bound: seconds the clock may show
    MaxPhotos       \* bound: photos asked for

ASSUME CapturerAssumption == MaxSecond \in Nat \ {0} /\ MaxPhotos \in Nat

Seconds == 1..MaxSecond     \* stand for the file names
Photos  == 1..MaxPhotos
None    == 0                \* no such file
Partial == -1               \* a file whose contents are not a whole photo

VARIABLES
    clock,          \* the local time
    final,          \* the contents of the file <name>
    tmp,            \* the contents of the file <name>.tmp
    remote,         \* the contents of the file <name> on the ownCloud server
    cpc,            \* where the polling thread is
    name,           \* cap_filename
    photo,          \* number of the last photo asked for
    victims,        \* files capture_erase.cgi found and has yet to remove
    second,         \* history: the second each photo was asked for
    stored,         \* history: photos logged as stored
    erased,         \* history: photos removed by capture_erase.cgi
    orphans         \* history: temporary files a killed daemon left

dirVars      == <<final, tmp>>
captureVars  == <<cpc, name, photo>>
photoVars    == <<second, stored, erased, orphans>>
capturerVars == <<clock, dirVars, remote, captureVars, victims, photoVars>>

CapturePlaces == {"idle", "create", "download", "stat", "unlink", "rename", "upload"}
Contents == Photos \union {None, Partial}
Kinds == {"final", "tmp"}

\* Type correctness of the files, their names and the photo being taken.
CaptureTypeOK ==
    /\ clock \in Seconds
    /\ final \in [Seconds -> Contents] /\ tmp \in [Seconds -> Contents]
    /\ remote \in [Seconds -> Contents]
    /\ cpc \in CapturePlaces /\ name \in Seconds /\ photo \in 0..MaxPhotos
    /\ victims \subseteq (Kinds \X Seconds)
    /\ second \in [Photos -> Seconds]
    /\ stored \subseteq Photos /\ erased \subseteq Contents
    /\ orphans \subseteq Seconds

CaptureInit ==
    /\ clock = 1
    /\ final = [n \in Seconds |-> None] /\ tmp = [n \in Seconds |-> None]
    /\ remote = [n \in Seconds |-> None]
    /\ cpc = "idle" /\ name = 1 /\ photo = 0 /\ victims = {}
    /\ second = [p \in Photos |-> 1]
    /\ stored = {} /\ erased = {} /\ orphans = {}

-----------------------------------------------------------------------------
(* on_alarm_event() with a high value.                                      *)

\* Mutant of compose_capture_filename: the name has half the resolution.
compose_capture_filename_Coarse ==
    /\ cpc = "idle" /\ photo < MaxPhotos
    /\ photo' = photo + 1 /\ second' = [second EXCEPT ![photo + 1] = clock]
    /\ name' = (clock + 1) \div 2
    /\ cpc' = "create"
    /\ UNCHANGED <<clock, dirVars, remote, victims, stored, erased, orphans>>

compose_capture_filename ==
    /\ cpc = "idle" /\ photo < MaxPhotos
    /\ photo' = photo + 1 /\ second' = [second EXCEPT ![photo + 1] = clock]
    /\ name' = clock
    /\ cpc' = "create"
    /\ UNCHANGED <<clock, dirVars, remote, victims, stored, erased, orphans>>

\* capturer_get_frame() failed before it created a file; the upload is tried
\* all the same.
CannotCreate ==
    /\ cpc = "create" /\ cpc' = "upload"
    /\ UNCHANGED <<clock, dirVars, remote, name, photo, victims, photoVars>>

\* fopen() truncates a file that a killed daemon left.
CreateTmp ==
    /\ cpc = "create" /\ cpc' = "download"
    /\ tmp' = [tmp EXCEPT ![name] = Partial]
    /\ orphans' = orphans \ {name}
    /\ UNCHANGED <<clock, final, remote, name, photo, victims, second, stored, erased>>

\* Mutant of DiscardTmp: the file is left there.
DiscardTmp_Leaves ==
    /\ cpc' = "upload"
    /\ UNCHANGED <<clock, dirVars, remote, name, photo, victims, photoVars>>

\* The error paths after fopen() remove the temporary file and give up.
DiscardTmp ==
    /\ tmp' = [tmp EXCEPT ![name] = None]
    /\ cpc' = "upload"
    /\ UNCHANGED <<clock, final, remote, name, photo, victims, photoVars>>

\* The photo has arrived, and fflush(), fsync() and fclose() have succeeded.  If
\* the file was removed meanwhile the data went to a file without a name.
Downloaded ==
    /\ cpc = "download" /\ cpc' = "stat"
    /\ tmp' = [tmp EXCEPT ![name] = IF @ = None THEN None ELSE photo]
    /\ UNCHANGED <<clock, final, remote, name, photo, victims, photoVars>>

\* Mutant of DownloadFails: the result of the transfer is not looked at.
DownloadFails_GoesOn ==
    /\ cpc = "download" /\ cpc' = "stat"
    /\ UNCHANGED <<clock, dirVars, remote, name, photo, victims, photoVars>>

\* No connection, an HTTP error, a timeout, a full disk.
DownloadFails == cpc = "download" /\ DiscardTmp

StatFinal ==
    /\ cpc = "stat"
    /\ cpc' = IF final[name] # None THEN "unlink" ELSE "rename"
    /\ UNCHANGED <<clock, dirVars, remote, name, photo, victims, photoVars>>

\* A file of that name is removed first.
UnlinkFinal ==
    /\ cpc = "unlink" /\ final[name] # None
    /\ final' = [final EXCEPT ![name] = None]
    /\ cpc' = "rename"
    /\ UNCHANGED <<clock, tmp, remote, name, photo, victims, photoVars>>

\* unlink() also fails if the file has been erased since stat().
UnlinkFails == cpc = "unlink" /\ DiscardTmp

Rename ==
    /\ cpc = "rename" /\ tmp[name] # None
    /\ final' = [final EXCEPT ![name] = tmp[name]]
    /\ tmp' = [tmp EXCEPT ![name] = None]
    /\ stored' = stored \union {photo}
    /\ cpc' = "upload"
    /\ UNCHANGED <<clock, remote, name, photo, victims, second, erased, orphans>>

\* rename() also fails if the temporary file has been erased.
RenameFails == cpc = "rename" /\ DiscardTmp

capturer_get_frame ==
    \/ CannotCreate \/ CreateTmp \/ Downloaded \/ DownloadFails
    \/ StatFinal \/ UnlinkFinal \/ UnlinkFails \/ Rename \/ RenameFails

\* The file open at this moment is sent, or nothing if there is none, ownCloud
\* is disabled or the transfer fails.
upload_capture ==
    /\ cpc = "upload" /\ cpc' = "idle"
    /\ \/ final[name] # None /\ remote' = [remote EXCEPT ![name] = final[name]]
       \/ UNCHANGED remote
    /\ UNCHANGED <<clock, dirVars, name, photo, victims, photoVars>>

-----------------------------------------------------------------------------
(* The environment.                                                         *)

SetClock(t) ==
    /\ clock' = t
    /\ UNCHANGED <<dirVars, remote, captureVars, victims, photoVars>>

\* capture_erase.cgi: the shell lists the files, then rm removes them one by
\* one.
EraseBegins ==
    /\ victims = {}
    /\ victims' = {f \in Kinds \X Seconds :
                       (IF f[1] = "final" THEN final ELSE tmp)[f[2]] # None}
    /\ UNCHANGED <<clock, dirVars, remote, captureVars, photoVars>>

EraseFinal(n) ==
    /\ <<"final", n>> \in victims /\ victims' = victims \ {<<"final", n>>}
    /\ final' = [final EXCEPT ![n] = None]
    /\ erased' = erased \union {final[n]}
    /\ UNCHANGED <<clock, tmp, remote, captureVars, second, stored, orphans>>

EraseTmp(n) ==
    /\ <<"tmp", n>> \in victims /\ victims' = victims \ {<<"tmp", n>>}
    /\ tmp' = [tmp EXCEPT ![n] = None]
    /\ orphans' = orphans \ {n}
    /\ UNCHANGED <<clock, final, remote, captureVars, second, stored, erased>>

\* The daemon is killed and runs again some time later.
Restart ==
    /\ cpc # "idle" /\ cpc' = "idle"
    /\ orphans' = {n \in Seconds : tmp[n] # None}
    /\ UNCHANGED <<clock, dirVars, remote, name, photo, victims, second, stored, erased>>

CaptureEnvironment ==
    \/ EraseBegins \/ Restart
    \/ \E n \in Seconds : EraseFinal(n) \/ EraseTmp(n) \/ SetClock(n)

CaptureNext ==
    compose_capture_filename \/ capturer_get_frame \/ upload_capture \/ CaptureEnvironment

CaptureSpec == CaptureInit /\ [][CaptureNext]_capturerVars

-----------------------------------------------------------------------------

\* A file under its final name is always a whole photo, wherever the daemon is
\* killed, whatever fails and whatever is erased meanwhile: this is what the
\* temporary file is for (capturer.c:260-353).
FinalComplete == \A n \in Seconds : final[n] # Partial

\* The server gets whole photos only, and only ones that have been stored: a
\* failed capture never uploads a remainder.
RemoteStored == \A n \in Seconds : remote[n] = None \/ remote[n] \in stored

\* A temporary file is that of the capture in progress or was left by a killed
\* daemon: every error path removes it.
TmpAccounted ==
    \A n \in Seconds : tmp[n] # None =>
        \/ n = name /\ cpc \in {"download", "stat", "unlink", "rename"}
        \/ n \in orphans

\* A stored photo that nobody erased is lost only to another of the same
\* second: failures, kills and erasures of other photos never remove it.
DistinctSecondsKept ==
    \A p \in stored \ erased :
        \/ \E n \in Seconds : final[n] = p
        \/ \E q \in Photos \ {p} : q <= photo /\ second[q] = second[p]

\* The strengthening that makes the four inductive: what a capture in progress has
\* written, that its photo is new, and that a file has the name of its photo's
\* second.
Capturing == cpc \in {"create", "download", "stat", "unlink", "rename"}

TmpInv == cpc \in {"stat", "unlink", "rename"} => tmp[name] \in {None, photo}

FileInv ==
    /\ \A n \in Seconds : final[n] # None => final[n] \in stored /\ second[final[n]] = n
    /\ cpc = "rename" => final[name] = None

PhotoInv ==
    /\ \A p \in stored : p <= photo
    /\ Capturing => photo \in Photos \ stored /\ second[photo] = name

CaptureInv ==
    /\ CaptureTypeOK /\ TmpInv /\ FileInv /\ PhotoInv
    /\ FinalComplete /\ RemoteStored /\ TmpAccounted /\ DistinctSecondsKept

=============================================================================
