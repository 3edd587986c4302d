---------------------------- MODULE MC_Agreement ----------------------------
(* What the device was told and what it does, for TLC: the amplifiers, the   *)
(* volume, the session, its requests and their property lists, the NTP clock *)
(* and the display.                                                          *)
(* A behaviour is one of one part; the other parts stay where they are.  The *)
(* clock, the session, the volume, the amplifiers and the display are        *)
(* extended, not instantiated: their properties are the proved ones.         *)
EXTENDS NtpClock, RtspSession, Volume, Dacs, NowPlaying, Integers, Sequences

VARIABLES part,
          request, plist,
          sender, wire, buf, cap, block, reader, done, cut

\* As many octets as a label of a host name may have.
MCLongName == "Living-room-speaker-0123456789-Living-room-speaker-0123456789-a"

\* AirPlay volumes, one on each piece of the driver's curve.
MCVolumes == {-30, -10}

P == INSTANCE Bplist WITH Names <- {"Speaker", MCLongName}, Capacities <- {511, 600, 1024}, Ports <- {0, 7000, 65535}, Types <-
       {"96", "103", "x"}, Keys <- {"A", "B"}, MaxStreams <- 2, file <- plist
F == INSTANCE RequestFraming WITH Heads <- {2}, Bodies <- {0, 3, 6, 8}, Initial <- 5, Large <- 9, Margin <- 2, Block <- 2,
       MaxRequests <- 3, phone <- sender, task <- reader

plistVars == <<request, plist>>
frameVars == <<sender, wire, buf, cap, block, reader, done, cut>>
allVars == <<part, ampVars, volumeVars, squeezeVars, sessionVars, plistVars, displayVars, vars, frameVars>>

\* Of a part that stays where it is one initial state is enough.
Pinned ==
    /\ part = "amp" \/ drv = Restored(Defaults, -10)
    /\ part = "volume" \/ saved = 20
    /\ part = "squeeze" \/ (file = [c \in 1 .. 2 |-> "none"] /\ lastDb = 1 /\ offset = 0 /\ src = "mix")
    /\ part = "display" \/ phone = [title |-> "a", at |-> 0, start |-> 0, playing |-> FALSE]
AgreementInit ==
        /\ part \in {"amp", "volume", "squeeze", "session", "plist", "display", "ntp", "framing"}
        /\ Pinned
        /\ AmpInit /\ VolumeInit /\ SqueezeInit /\ SessionInit /\ P!Init /\ DisplayInit /\ Init /\ F!Init
AgreementNext ==
        /\ UNCHANGED part
        /\ \/ part = "amp" /\ AmpNext
              /\ UNCHANGED volumeVars /\ UNCHANGED squeezeVars /\ UNCHANGED sessionVars /\ UNCHANGED plistVars /\
                 UNCHANGED displayVars /\ UNCHANGED vars /\ UNCHANGED frameVars
           \/ part = "volume" /\ VolumeNext
              /\ UNCHANGED ampVars /\ UNCHANGED squeezeVars /\ UNCHANGED sessionVars /\ UNCHANGED plistVars /\
                 UNCHANGED displayVars /\ UNCHANGED vars /\ UNCHANGED frameVars
           \/ part = "squeeze" /\ SqueezeNext
              /\ UNCHANGED ampVars /\ UNCHANGED volumeVars /\ UNCHANGED sessionVars /\ UNCHANGED plistVars /\
                 UNCHANGED displayVars /\ UNCHANGED vars /\ UNCHANGED frameVars
           \/ part = "session" /\ SessionNext
              /\ UNCHANGED ampVars /\ UNCHANGED volumeVars /\ UNCHANGED squeezeVars /\ UNCHANGED plistVars /\
                 UNCHANGED displayVars /\ UNCHANGED vars /\ UNCHANGED frameVars
           \/ part = "plist" /\ P!Next
              /\ UNCHANGED ampVars /\ UNCHANGED volumeVars /\ UNCHANGED squeezeVars /\ UNCHANGED sessionVars /\
                 UNCHANGED displayVars /\ UNCHANGED vars /\ UNCHANGED frameVars
           \/ part = "display" /\ DisplayNext
              /\ UNCHANGED ampVars /\ UNCHANGED volumeVars /\ UNCHANGED squeezeVars /\ UNCHANGED sessionVars /\
                 UNCHANGED plistVars /\ UNCHANGED vars /\ UNCHANGED frameVars
           \/ part = "ntp" /\ Next
              /\ UNCHANGED ampVars /\ UNCHANGED volumeVars /\ UNCHANGED squeezeVars /\ UNCHANGED sessionVars /\
                 UNCHANGED plistVars /\ UNCHANGED displayVars /\ UNCHANGED frameVars
           \/ part = "framing" /\ F!Next
              /\ UNCHANGED ampVars /\ UNCHANGED volumeVars /\ UNCHANGED squeezeVars /\ UNCHANGED sessionVars /\
                 UNCHANGED plistVars /\ UNCHANGED displayVars /\ UNCHANGED vars
AgreementSpec == AgreementInit /\ [][AgreementNext]_allVars
-----------------------------------------------------------------------------
\* The properties of the parts, at the names they have in their modules.
\* What a sender sends is dispatched whole, and a property list says what was meant.
MessagesWhole == F!Framed /\ P!BuiltSaysIt /\ P!ParsedAsSent
=============================================================================
