------------------------------ MODULE MCInputs ------------------------------
(***************************************************************************)
(* What the programs are given to work with, in one instance for TLC: the  *)
(* first state chooses between the configuration file and the audio        *)
(* devices, and the variables of the other keep their first values.        *)
(***************************************************************************)
EXTENDS AudioDevices, ConfigParser

VARIABLE input

inputVars == <<input, vars, parserVars>>

NoDevices == /\ maxChannels = [h \in Side |-> [i \in DOMAIN Name |-> 0]]
             /\ supports = {} /\ dev = [h \in Side |-> NULL]
             /\ defaultSampleRate = CHOOSE r \in Rates : TRUE

InputsInit == \/ /\ input = "file" /\ NoDevices
                 /\ Init /\ ParserInit
              \/ /\ input = "devices" /\ file = <<>>
                 /\ Init /\ ParserInit

InputsNext == \/ input = "file" /\ ParserNext /\ UNCHANGED <<input, vars>>
              \/ input = "devices" /\ Next /\ UNCHANGED <<input, parserVars>>

InputsSpec == InputsInit /\ [][InputsNext]_inputVars

-----------------------------------------------------------------------------
(* The types of the variables of both.                                     *)
InputsTypeOK == TypeOK /\ ParserTypeOK
=============================================================================
