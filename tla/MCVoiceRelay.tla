---------------------------- MODULE MCVoiceRelay ----------------------------
(* Three announcements, one of them critical.                              *)
EXTENDS VoiceRelay

CONSTANTS info, warn, alert

=============================================================================
