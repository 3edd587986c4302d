----------------------------- MODULE MC_Players -----------------------------
(* The players of the device for TLC, side by side and never together: a     *)
(* behaviour is one of the web radio, of the SD player, of the I2S owners or  *)
(* of what the players show.  The properties are those of Players, of         *)
(* TrackInfo (ReadsInside) and of I2sOwner (SourcesShare): the proved ones.   *)
EXTENDS Players

VARIABLE part

wvars == <<rd, rring, http, rplay, rctl, rlog>>
svars == <<sd, sring, rdr, splay, sctl, slog>>

PlayersInit == part \in {"radio", "sd", "i2s", "tracks"} /\ W!Init /\ S!Init /\ OwnerInit /\ Init
PlayersNext ==
    /\ UNCHANGED part
    /\ \/ part = "radio" /\ W!Next /\ UNCHANGED svars /\ UNCHANGED ownerVars /\ UNCHANGED vars
       \/ part = "sd" /\ S!Next /\ UNCHANGED wvars /\ UNCHANGED ownerVars /\ UNCHANGED vars
       \/ part = "i2s" /\ OwnerNext /\ UNCHANGED wvars /\ UNCHANGED svars /\ UNCHANGED vars
       \/ part = "tracks" /\ Next /\ UNCHANGED wvars /\ UNCHANGED svars /\ UNCHANGED ownerVars
allVars == <<part, wvars, svars, ownerVars, vars>>
PlayersSpec == PlayersInit /\ [][PlayersNext]_allVars /\ W!Fairness /\ S!Fairness /\ Fairness
=============================================================================
