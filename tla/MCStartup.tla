------------------------------ MODULE MCStartup ------------------------------
(* TLC instances of Startup.                                               *)
EXTENDS Startup

Stream(host, port, colon) ==
    Line("market_data_stream", [host |-> host, port |-> port, colon |-> colon])
Cert == Line("tls_cert_pem", "cert")
Key == Line("tls_key_pem", "key")
Filter == Line("token_filter_file", "tokens")

\* Every kind of line, good and bad; with ports of two bits a 4 is a 0.
Lines ==
    {Line("blank", ""), Line("junk", ""), Line("no_such_key", ""), Cert, Line("tls_cert_pem", ""),
     Filter, Line("gr_tls_port", 5), Line("gr_tls_port", NaN), Line("session_port", 4),
     Line("max_book_contracts", 0), Line("default_stream_no", 3),
     Stream("h", 1, TRUE), Stream("h", 6, TRUE), Stream("h", 4, TRUE), Stream("", 1, TRUE),
     Stream("h", NaN, TRUE), Stream("h", 1, FALSE)}

\* Any two lines; any two around a file that is complete; and ports that are fixed,
\* free or the same for two streams.
MCFiles ==
    SeqOf(Lines, 2)
      \cup {<<a, Cert, Key, Filter, b>> : a, b \in Lines}
      \cup {<<Cert, Key, Filter, Line("gr_tls_port", g), Line("session_port", s),
              Stream("h", 1, TRUE), Stream("h", p, TRUE)>> : g, s \in {0, 1, 2}, p \in {1, 2}}

MCTokenFiles == {"missing", "bad", "good"}

=============================================================================
