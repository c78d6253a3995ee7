----------------------------- MODULE MCUpstream -----------------------------
\* Yahoo's shards at a tenth of their numbers: 8 of about 10 symbols to a
\* connection, and requests of up to 5, as a session may ask for at once.
EXTENDS Upstream

MCSessions == {1..5, 6..7, 8..12}
=============================================================================
