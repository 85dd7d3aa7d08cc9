------------------------------- MODULE Presign -------------------------------
(***************************************************************************)
(* The lifetime of the URL under which the transcription service downloads *)
(* a recording.  Times are in seconds: recordings.duration_sec is a 32-bit *)
(* INTEGER, NULL or 0 when it is not known.                                *)
(***************************************************************************)
EXTENDS Integers

CONSTANT Durations   \* values of duration_sec

ASSUME PresignAssumption == Durations \subseteq Int

VARIABLES
  spaces,   \* whether the endpoint and the bucket are configured
  urls      \* URLs handed out: the recording's duration and the lifetime

presignVars == <<spaces, urls>>

MinTTL == 15 * 60
MaxTTL == 4 * 60 * 60
UnknownTTL == 60 * 60

PresignTypeOK ==
  /\ spaces \in BOOLEAN
  /\ urls \subseteq [duration : Durations, ttl : Int]

PresignInit == spaces \in BOOLEAN /\ urls = {}

\* A lifetime that is only bounded from below.
PresignTTLUncapped(duration) ==
  CASE duration <= 0 -> UnknownTTL
    [] duration > 0 /\ duration * 2 < MinTTL -> MinTTL
    [] OTHER -> duration * 2

\* Twice the recording, between a quarter of an hour and four hours.
PresignTTL(duration) ==
  CASE duration <= 0 -> UnknownTTL
    [] duration > 0 /\ duration * 2 < MinTTL -> MinTTL
    [] duration * 2 > MaxTTL -> MaxTTL
    [] OTHER -> duration * 2

PresignGet(duration) ==
  /\ spaces
  /\ urls' = urls \cup {[duration |-> duration, ttl |-> PresignTTL(duration)]}
  /\ UNCHANGED spaces

PresignNext == \E duration \in Durations : PresignGet(duration)
PresignSpec == PresignInit /\ [][PresignNext]_presignVars

-----------------------------------------------------------------------------
\* Every URL lives at least a quarter of an hour and at most four hours; one of
\* a recording that is shorter than four hours outlives a download at the speed
\* of playback; and a longer recording never has the shorter URL.
URLOutlivesDownload ==
  /\ \A u \in urls :
       /\ MinTTL <= u.ttl /\ u.ttl <= MaxTTL
       /\ u.duration <= MaxTTL => u.duration <= u.ttl
  /\ \A u, v \in urls : 0 < u.duration /\ u.duration <= v.duration => u.ttl <= v.ttl
=============================================================================
