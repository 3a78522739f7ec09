SPECIFICATION CommandFairSpec
CONSTANTS
  MaxOrders = 3
  MaxRestarts = 1
  NoCommand = 0
  Powers <- MCPowers
  Commands <- MCCommands
PROPERTIES ImplementsMailbox OrdersArrive
