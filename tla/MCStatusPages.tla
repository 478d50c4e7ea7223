--------------------------- MODULE MCStatusPages ---------------------------
EXTENDS StatusPages

MCPages == Statuses \cup {"scan"}
=============================================================================
