CONSTANTS
  k1 = k1
  k2 = k2
  Clients <- MCClients
  NChains = 2
  Capacity = 1
  MaxEvents = 2
SPECIFICATION ProducerSpec
PROPERTY ForwarderNeverStuck
