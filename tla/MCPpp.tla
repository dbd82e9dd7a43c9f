-------------------------------- MODULE MCPpp -------------------------------
EXTENDS PppLink

Base == [ll |-> "pppos", srv |-> "none", cli |-> "none", authreq |-> FALSE,
         ncps |-> {"ipcp"}, quiet |-> "active", listen |-> FALSE, echo |-> FALSE,
         rechallenge |-> FALSE, compress |-> TRUE, persist |-> FALSE,
         auto |-> "no", fails |-> FALSE]

MCConfigs ==
  {Base,
   [Base EXCEPT !.ncps = {"ipcp", "ipv6cp"}, !.auto = "now"],
   [Base EXCEPT !.ncps = {"ipcp", "ccp"}, !.compress = FALSE],
   [Base EXCEPT !.fails = TRUE],
   [Base EXCEPT !.quiet = "silent", !.listen = TRUE, !.echo = TRUE],
   [Base EXCEPT !.quiet = "passive", !.echo = TRUE, !.auto = "hold"],
   [Base EXCEPT !.srv = "pap", !.cli = "pap", !.authreq = TRUE],
   [Base EXCEPT !.srv = "chap", !.cli = "chap", !.authreq = TRUE, !.fails = TRUE],
   [Base EXCEPT !.srv = "chap", !.cli = "pap", !.authreq = TRUE, !.rechallenge = TRUE],
   [Base EXCEPT !.srv = "eap", !.authreq = TRUE],
   [Base EXCEPT !.cli = "eap"],
   [Base EXCEPT !.ll = "pppoe", !.auto = "hold"],
   [Base EXCEPT !.ll = "pppol2tp", !.auto = "now", !.fails = TRUE]}
=============================================================================
