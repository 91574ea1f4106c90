-------------------------------- MODULE Outputs --------------------------------
(* What a frontend is given by a machine: its sound, its picture, its refresh  *)
(* rate, its memory and its save data. The five share nothing, so each         *)
(* behaviour is of one.                                                        *)
EXTENDS AudioMix, Picture, Memories, SaveData

VARIABLE part

outputsVars == <<part, vars, pictureVars, memoriesVars, saveVars>>

Parts == {"sound", "picture", "rate", "memory", "save data"}

\* A part that is not looked at stands still, at one of its beginnings.
Alone(p, v) == part = p /\ UNCHANGED v

OutputsInit ==
    /\ part \in Parts
    /\ Init /\ PictureInit /\ MemoriesInit /\ SaveInit
    /\ part \notin {"picture", "rate"} => n64 /\ pal
    /\ part # "picture" => renderer = "ares"
    /\ part # "rate" => declared = <<0, 0>>
    /\ part # "memory" => made.n64

OutputsNext ==
    \/ Next /\ Alone("sound", <<part, pictureVars, memoriesVars, saveVars>>)
    \/ Shows /\ Alone("picture", <<part, vars, memoriesVars, saveVars>>)
    \/ SaysItsRate /\ Alone("rate", <<part, vars, memoriesVars, saveVars>>)
    \/ MemoriesNext /\ Alone("memory", <<part, vars, pictureVars, saveVars>>)
    \/ SaveNext /\ Alone("save data", <<part, vars, pictureVars, memoriesVars>>)

OutputsSpec == OutputsInit /\ [][OutputsNext]_outputsVars

\* The type invariants of the modules.
TypesOK == TypeOK /\ PictureTypeOK /\ MemoriesTypeOK /\ SaveTypeOK
================================================================================
