-------------------------- MODULE MCConfiguration --------------------------
(* Instances of Configuration for TLC: a number and a flag between a text  *)
(* and another number, in the order of parseConfig().                      *)
EXTENDS Configuration, TLC

SomeFields == {"PublicIP", "RestApiPort", "EnableSSL", "MaxPlayers"}
SomeNumbers == {"RestApiPort", "MaxPlayers"}
SomeFlags == {"EnableSSL"}
SourceOrder ==
  "PublicIP" :> 1 @@ "RestApiPort" :> 2 @@ "EnableSSL" :> 3 @@ "MaxPlayers" :> 4

SomeTexts == {"a", " a", "90", "90x", "9", "x", "true", " true", "false"}
Number == "90" :> "90" @@ "90x" :> "90" @@ "9" :> "9"
Trimmed == [v \in SomeTexts |-> CASE v = " a" -> "a" [] v = " true" -> "true" [] OTHER -> v]
CutShort == [v \in SomeTexts |-> IF v \in {"90", "90x"} THEN {"9"} ELSE {}]

SomeDefaults ==
  "PublicIP" :> "a" @@ "RestApiPort" :> "9" @@ "EnableSSL" :> "true" @@ "MaxPlayers" :> "90"
SomeOffered ==
  "PublicIP" :> {" a", "x"} @@ "RestApiPort" :> {"90x", "x"}
    @@ "EnableSSL" :> {" true", "false"} @@ "MaxPlayers" :> {"90", "x"}
=============================================================================
