------------------------------ MODULE Players -------------------------------
(* The players of the device, side by side: the web radio (WebRadio) and the *)
(* SD player (SdPlayer), each with a task that brings the data and a task    *)
(* that plays it; who has the I2S (I2sOwner); and what is shown of the song  *)
(* (TrackInfo).  They share no variable: a behaviour of all is one of each.  *)
EXTENDS TrackInfo, I2sOwner

CONSTANTS
    RadioSongs, StreamChunks, RadioRing, MaxGen, RadioMaxSkips,     \* WebRadio
    SdSongs, FileChunks, SdRing, MaxPlays, SdMaxSkips               \* SdPlayer

ASSUME PlayersAssumption ==
    /\ RadioSongs \in Nat /\ RadioRing \in Nat /\ MaxGen \in Nat
    /\ SdSongs \in Nat /\ SdRing \in Nat

VARIABLES rd, rring, http, rplay, rctl, rlog, sd, sring, rdr, splay, sctl, slog

W == INSTANCE WebRadio WITH Songs <- RadioSongs, RingChunks <- RadioRing, MaxSkips <- RadioMaxSkips,
       ring <- rring, play <- rplay, ctl <- rctl, log <- rlog
S == INSTANCE SdPlayer WITH Songs <- SdSongs, RingChunks <- SdRing, MaxSkips <- SdMaxSkips,
       ring <- sring, play <- splay, ctl <- sctl, log <- slog

\* The properties of the radio, with the SD player's or TrackInfo's: no task of a player is created while the one
\* before it lives; a skip goes to one song and an end to the next, shown with its own title; a stop ends the tasks.
OneTaskEach == W!OneTaskEach /\ S!OneTaskEach /\ [](W!TypeOK /\ S!TypeOK)
SongsInOrder == []W!SkipLands /\ S!EndMovesOn /\ []OwnTitles
StopSettles == W!StopSettles /\ S!StopSettles /\ S!NoOrphanReader /\ ProbeEnds
\* Properties that do not hold.
RadioFailureStops == W!FailureStops
SdSkipLands == S!SkipLands
=============================================================================
