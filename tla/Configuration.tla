----------------------------- MODULE Configuration -----------------------------
(***************************************************************************)
(* The two ConfigMaps the controller reads and what their constructors     *)
(* make of them.  The data of a ConfigMap is taken for what it parses to;  *)
(* of config-autoscaler only whether it does and which one it is.          *)
(***************************************************************************)

\* A URI may have no host and be one all the same: "/metrics", or "host:9090".
Addresses == {"unset", "bad", "noHost", "ok"}

KedaData == [address: Addresses, autocreate: {"unset", "bad", "true", "false"}]
AutoscalerData == [content: {"bad", "c1", "c2"}]

AutoscalerKedaConfig ==
  [PrometheusAddress: {"default"} \cup Addresses, ShouldCreateScaledObject: BOOLEAN]

Invalid == [error |-> TRUE]     \* the constructor returned an error

\* Whether ParseServerAddress returns no error.  It finds that a host is missing
\* and then returns the nil error of the parse.
ParseServerAddress(address) == address # "bad"

NewConfigFromMap(data) ==
  LET config ==
        [PrometheusAddress        |-> IF data.address = "unset" THEN "default" ELSE data.address,
         ShouldCreateScaledObject |-> data.autocreate # "false"]
  IN  IF data.autocreate = "bad" \/ ~ ParseServerAddress(config.PrometheusAddress)
      THEN Invalid ELSE config

AutoscalerConfig(data) == IF data.content = "bad" THEN Invalid ELSE data
===============================================================================
