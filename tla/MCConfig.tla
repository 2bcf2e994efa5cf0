------------------------------ MODULE MCConfig ------------------------------
EXTENDS Config, TLC

(* Hosts and paths of the URLs in config_test.go, and a 16-bit Duration    *)
(* counting hundredths of a second: 327 s is the largest value that fits,  *)
(* 328 s wraps to a negative Duration, as 9223372037 s does at 64 bits.    *)
MCHosts == {"", "h"}
MCPaths == {<<>>, <<"/">>, <<"/", "v", "1">>, <<"/", "v", "1", "/">>}
MCPortValues == {"9000"}
MCSecondValues == {-1, 0, 15, 327, 328}
=============================================================================
