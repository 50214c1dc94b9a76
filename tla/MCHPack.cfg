SPECIFICATION Spec
CONSTANTS
  Letters = {"a", "b"}
  Headers <- MCHeaders
  Indexing <- MCIndexing
  Static <- MCStatic
  Extra = 1
  TableSize = 8
  MaxAdded = 5
  MaxFields = 2
INVARIANTS IndexExact SizeExact DecodesRight TablesAgree
CHECK_DEADLOCK FALSE
