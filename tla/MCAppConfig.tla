----------------------------- MODULE MCAppConfig -----------------------------
(***************************************************************************)
(* Values for model-checking AppConfig: two capabilities, svc (the service *)
(* itself) and db, two ports, and files and command lines that move them   *)
(* onto one another or apart.                                              *)
(***************************************************************************)
EXTENDS AppConfig

End(ip, port) == [ip |-> ip, port |-> port]
Tcp(end)      == [kind \in Kinds |-> IF kind = "TCP" THEN end ELSE NoEnd]
Two(end, grpc) ==
  [kind \in Kinds |-> CASE kind = "TCP"  -> end
                        [] kind = "gRPC" -> grpc
                        [] OTHER         -> NoEnd]

SomeContents ==
  {[name |-> "svc", ends |-> [svc |-> Tcp(End("localhost", 81)),
                              db  |-> Tcp(End("10.0.0.1", 81))]],
   [name |-> "", ends |-> [svc |-> Two(End("10.0.0.1", 81), End("0.0.0.0", 82))]]}

SomeCandidates == <<"given.yaml", "profile.yaml", "config/profile.yaml">>

SomeFiles ==
  ("given.yaml" :> [name |-> "db", ends |-> [svc |-> Tcp(End("10.0.0.1", 0))]]) @@
  ("profile.yaml" :> [name |-> "", ends |-> [db |-> Tcp(End("127.0.0.1", 81))]]) @@
  ("config/profile.yaml" :> [name |-> "", ends |-> [db |-> Tcp(End("", 82))]])

SomeNumerals == ("81" :> 81) @@ ("82" :> 82)

Bare(flag)        == [text |-> "--" \o flag, flag |-> flag, value |-> NoValue]
Equals(flag, val) == [text |-> "--" \o flag \o "=" \o val, flag |-> flag, value |-> val]
Word(text)        == [text |-> text, flag |-> "", value |-> NoValue]

SomeDirectArgs == {NoArgs, [NoArgs EXCEPT !.host = "0.0.0.0", !.port = 82]}

SomeCommandLines ==
  {<< >>,
   <<Equals("port", "82"), Bare("host"), Word("0.0.0.0")>>,
   <<Bare("name"), Word("db"), Equals("port", "8x2"), Bare("conf"), Word("given.yaml")>>,
   <<Bare("host"), Equals("grpc_port", "82"), Bare("grpc_port"), Word("82"), Bare("key")>>,
   <<Equals("key", "id"), Word("--unknown"), Equals("grpc_host", "10.0.0.1"), Bare("grpc_port"), Word("81")>>}
=============================================================================
