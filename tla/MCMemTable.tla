----------------------------- MODULE MCMemTable -----------------------------
EXTENDS MemTable

CONSTANTS r1, head, nil, uninit

MCReaders == {r1}
MCKeyLen == [u \in UserKeys |-> u]
MCRecords == [u : UserKeys, seq : 1..MaxSeq, type : {TypeDeletion, TypeValue}]
MCSizes == {EncodedLen(r) : r \in MCRecords} \cup {NodeSize(h) : h \in Levels}
=============================================================================
