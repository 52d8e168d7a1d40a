--------------------------------- MODULE Formats ---------------------------------
(***************************************************************************)
(* The two libraries that read and write the data files of the             *)
(* application, YAML and JSON.  They share nothing, so that a task is for  *)
(* one of them and the other is idle.                                      *)
(***************************************************************************)
EXTENDS YamlRoundTrip, JsonRoundTrip

formatVars == <<vars, jsonVars>>

YamlIdle ==
    /\ task = Task("objects", <<>>, {}, <<>>, [encoding |-> "utf-8"])
    /\ ReaderAt(<<>>, TRUE)
    /\ stage = "done"
    /\ parser = NewParser(<<>>, "any") /\ caller = "loader"
    /\ emitter = NewEmitter([encoding |-> "utf-8"])
    /\ given = <<>> /\ returned = <<>>

FormatsInit == (Init /\ JsonIdle) \/ (YamlIdle /\ JsonInit)

YamlStep == Next /\ UNCHANGED jsonVars
JsonStep == JsonNext /\ UNCHANGED vars

FormatsNext == YamlStep \/ JsonStep

FormatsSpec == FormatsInit /\ [][FormatsNext]_formatVars
===============================================================================
