------------------------------ MODULE MCServer ------------------------------
EXTENDS Server

CONSTANTS e1, e2, e3

Notices(source, shape, changes) == [source |-> source, shape |-> shape, changes |-> changes]

\* Every shape, an unreadable element with readable ones before, after and beside it.
SomeBodies ==
    {Notices("WHATSBOX", "notJson", <<>>),
     Notices("META", "nothing", <<>>),
     Notices("META", "nullEntry", <<<<e1>>>>),
     Notices("WHATSBOX", "changes", <<<<e1, Bad>>, <<e2>>>>),
     Notices("META", "changes", <<<<e1, Bad, e2>>, <<e3>>>>),
     Notices("BITRIX24", "changes", <<<<e1, e2>>>>),
     Notices("WHATSBOX", "flat", <<<<e1, e2>>>>),
     Notices("META", "flat", <<<<e1>>>>)}
=============================================================================
